---- MODULE Spec2Model ----
(***************************************************************************)
(* c-log (src/src/c-log.h): the record formatting and emission pipeline    *)
(* and the per-thread label-keyed timer table.                             *)
(*                                                                         *)
(* Bytes are one-character strings; NUL and ESC stand for '\0' and '\x1b'. *)
(* A C string is a sequence of bytes without its terminator.  g_buf is a   *)
(* sequence of CLOG_LINE_MAX bytes; At(buf, i) is the byte at C index i.   *)
(***************************************************************************)
EXTENDS Integers, Sequences, FiniteSets, TLC

VARIABLES
    g_lvl,      \* CLOG_STATE_INT(g_lvl, CLOG_DEFAULT_LEVEL)
    g_fd,       \* CLOG_STATE_INT(g_fd, CLOG_FD_STDERR)
    g_lock,     \* 0 when free, else the thread holding it
    g_buf,      \* per thread: char g_buf[CLOG_LINE_MAX]
    g_timers,   \* per thread: clog_timer_slot_ g_timers[CLOG_TIMERS_MAX]
    pc,         \* per thread: position inside clog_emit_
    loc,        \* per thread: arguments and locals of the running clog_emit_
    out,        \* per descriptor: the bytes the descriptor has accepted
    own,        \* per descriptor: for each accepted write, [t, k, p, n]: thread, call,
                \* first buffer index and byte count
    nsync,      \* per descriptor: number of fsync calls issued
    now,        \* last value returned by clog_now_ns_mono_
    nops,       \* number of API calls made so far
    h,          \* per thread: what the current or last API call has done
    cs,         \* the composition of one record, step by step
    sc          \* per thread: the for statement of a CLOG_SCOPE_TIME being run

vars == <<g_lvl, g_fd, g_lock, g_buf, g_timers, pc, loc, out, own, nsync, now, nops, h, cs, sc>>

----------------------------------------------------------------------------
(* Build configuration *)

CLOG_LINE_MAX == 80
CLOG_TIMERS_MAX == 2
CLOG_THREAD_SAFE == 1
CLOG_LOCK_KIND == 2
CLOG_COLOR == 1
CLOG_COLOR_FORCE == 0
CLOG_WITH_LINE == 1
CLOG_WITH_TID == 1
CLOG_TID_SHORT == 0
CLOG_FD_STDERR == 2

CLOG_TRACE == 0
CLOG_DEBUG == 1
CLOG_INFO == 2
CLOG_WARN == 3
CLOG_ERROR == 4
CLOG_FATAL == 5
CLOG_DEFAULT_LEVEL == CLOG_INFO

Levels == CLOG_TRACE..CLOG_FATAL

CLOG_TIMER_NS_MAX == 1000
CLOG_TIMER_US_MAX == 1000000
CLOG_TIMER_MS_MAX == 1000000000

----------------------------------------------------------------------------
(* Bytes and strings *)

NUL == "NUL"
ESC == "ESC"
NL == "\n"
NULLP == <<"(null)">>    \* a null char pointer; never a byte string of the model

Min(a, b) == IF a < b THEN a ELSE b
Max(a, b) == IF a > b THEN a ELSE b

Run(c, n) == [i \in 1..n |-> c]

Digits == <<"0", "1", "2", "3", "4", "5", "6", "7", "8", "9">>

RECURSIVE Dec(_)
\* "%d", "%lu", "%llu" of a value >= 0
Dec(n) == IF n < 10 THEN <<Digits[n + 1]>> ELSE Dec(n \div 10) \o <<Digits[(n % 10) + 1]>>

\* "%0<w>d" of a value >= 0
PadDec(n, w) == LET d == Dec(n) IN Run("0", w - Len(d)) \o d

----------------------------------------------------------------------------
(* Helpers of the prefix *)

clog_level_name_(l) ==
    CASE l = CLOG_TRACE -> <<"T", "R", "A", "C", "E">>
      [] l = CLOG_DEBUG -> <<"D", "E", "B", "U", "G">>
      [] l = CLOG_INFO  -> <<"I", "N", "F", "O">>
      [] l = CLOG_WARN  -> <<"W", "A", "R", "N">>
      [] l = CLOG_ERROR -> <<"E", "R", "R", "O", "R">>
      [] l = CLOG_FATAL -> <<"F", "A", "T", "A", "L">>
      [] OTHER          -> <<"?">>

clog_level_color_(l) ==
    IF CLOG_COLOR = 1
    THEN CASE l = CLOG_TRACE -> <<ESC, "[", "9", "0", "m">>
           [] l = CLOG_DEBUG -> <<ESC, "[", "3", "6", "m">>
           [] l = CLOG_INFO  -> <<ESC, "[", "3", "2", "m">>
           [] l = CLOG_WARN  -> <<ESC, "[", "3", "3", "m">>
           [] l = CLOG_ERROR -> <<ESC, "[", "3", "1", "m">>
           [] l = CLOG_FATAL -> <<ESC, "[", "3", "5", "m">>
           [] OTHER          -> <<>>
    ELSE <<>>

CLOG_ANSI_RESET == IF CLOG_COLOR = 1 THEN <<ESC, "[", "0", "m">> ELSE <<>>

\* Descriptors that are terminals (isatty); the others are files or pipes.
TtyFds == {CLOG_FD_STDERR}
clog_isatty_fd_(fd) == fd \in TtyFds

\* no_color: NO_COLOR is set to a non-empty value; curfd: the value g_fd holds
\* when clog_color_enabled_ loads it.
clog_color_enabled_(no_color, curfd) ==
    IF CLOG_COLOR = 1
    THEN IF no_color THEN FALSE
         ELSE IF CLOG_COLOR_FORCE = 1 THEN TRUE
         ELSE clog_isatty_fd_(curfd)
    ELSE FALSE

RECURSIVE BasenameFrom(_, _, _)
\* the loop of clog_basename_: s scans p (1-based), b is the start of the result
BasenameFrom(p, s, b) ==
    IF s > Len(p) THEN b
    ELSE BasenameFrom(p, s + 1, IF p[s] = "/" \/ p[s] = "\\" THEN s + 1 ELSE b)

clog_basename_(p) == SubSeq(p, BasenameFrom(p, 1, 1), Len(p))

----------------------------------------------------------------------------
(* snprintf and CLOG_APPEND *)

\* A char array of n bytes is a sequence of length n: the byte at C index i
\* is element i + 1.
At(buf, i) == buf[i + 1]

\* snprintf(dst + pos, avail, ...) where text is the whole formatted output:
\* at most avail - 1 bytes of it are stored, then a NUL; the result is the
\* length of the whole output.  hi is the highest index stored to (-1: none).
snprintf_(dst, pos, avail, text) ==
    IF avail = 0 THEN [buf |-> dst, r |-> Len(text), hi |-> -1]
    ELSE LET k == Min(Len(text), avail - 1)
         IN [buf |-> SubSeq(dst, 1, pos) \o SubSeq(text, 1, k) \o <<NUL>>
                     \o SubSeq(dst, pos + k + 2, Len(dst)),
             r |-> Len(text),
             hi |-> pos + k]

\* CLOG_APPEND advancing by snprintf's result instead of by what fit
CLOG_APPEND_Unclamped(st, cap, text) ==
    IF st.pos < cap
    THEN LET w == snprintf_(st.buf, st.pos, cap - st.pos, text)
         IN [buf |-> w.buf, pos |-> st.pos + Max(w.r, 0), hi |-> Max(st.hi, w.hi)]
    ELSE st

\* st = [buf, pos, hi]: the buffer, the cursor and the highest index stored to
CLOG_APPEND(st, cap, text) ==
    IF st.pos < cap
    THEN LET avail == cap - st.pos
         IN \* w: what snprintf left and returned, bound to its value
            CHOOSE x \in
              {IF w.r > 0
               THEN [buf |-> w.buf,
                     pos |-> st.pos + (IF w.r < avail THEN w.r
                                       ELSE IF avail # 0 THEN avail - 1 ELSE 0),
                     hi |-> Max(st.hi, w.hi)]
               ELSE [buf |-> w.buf, pos |-> st.pos, hi |-> Max(st.hi, w.hi)] :
                 w \in {snprintf_(st.buf, st.pos, avail, text)}} : TRUE
    ELSE st

----------------------------------------------------------------------------
(* clog_write_prefix_: one operator per CLOG_APPEND of the function *)

HexDigits == <<"0", "1", "2", "3", "4", "5", "6", "7", "8", "9", "a", "b", "c", "d", "e", "f">>

RECURSIVE Hex(_)
Hex(n) == IF n < 16 THEN <<HexDigits[n + 1]>> ELSE Hex(n \div 16) \o <<HexDigits[(n % 16) + 1]>>

\* "%04d-%02d-%02d %02d:%02d:%02d.%03d " of the parts clog_localtime_parts_ returns
TimestampText(wc) ==
    PadDec(wc.Y, 4) \o <<"-">> \o PadDec(wc.m, 2) \o <<"-">> \o PadDec(wc.d, 2) \o <<" ">>
    \o PadDec(wc.H, 2) \o <<":">> \o PadDec(wc.M, 2) \o <<":">> \o PadDec(wc.S, 2)
    \o <<".">> \o PadDec(wc.ms, 3) \o <<" ">>

\* "[%s%s%s]\t" with color, "[%s]\t" without
LevelText(lvl, color) ==
    IF color
    THEN <<"[">> \o clog_level_color_(lvl) \o clog_level_name_(lvl) \o CLOG_ANSI_RESET \o <<"]", "\t">>
    ELSE <<"[">> \o clog_level_name_(lvl) \o <<"]", "\t">>

\* "(t#%06lx) " of the low 24 bits, or "(tid:%lu) "
TidText(tid) ==
    IF CLOG_TID_SHORT = 1
    THEN LET x == Hex(tid % 16777216)
         IN <<"(", "t", "#">> \o Run("0", 6 - Len(x)) \o x \o <<")", " ">>
    ELSE <<"(", "t", "i", "d", ":">> \o Dec(tid) \o <<")", " ">>

\* "<%s:%d> " or "<%s> "
SiteText(fname, line) ==
    IF CLOG_WITH_LINE = 1
    THEN <<"<">> \o fname \o <<":">> \o Dec(line) \o <<">", " ">>
    ELSE <<"<">> \o fname \o <<">", " ">>

\* "[%s] "
GroupText(group) == <<"[">> \o group \o <<"]", " ">>

PrefixTimestamp(st, cap, wc) == CLOG_APPEND(st, cap, TimestampText(wc))

PrefixLevel(st, cap, lvl, no_color, curfd) ==
    CLOG_APPEND(st, cap, LevelText(lvl, clog_color_enabled_(no_color, curfd)))

PrefixTid(st, cap, tid) ==
    IF CLOG_WITH_TID = 1 THEN CLOG_APPEND(st, cap, TidText(tid)) ELSE st

PrefixSite(st, cap, file, line) == CLOG_APPEND(st, cap, SiteText(clog_basename_(file), line))

\* a group block for every call, also without a group or with an empty one
PrefixGroup_Always(st, cap, group) == CLOG_APPEND(st, cap, GroupText(group))

PrefixGroup(st, cap, group) ==
    IF group # NULLP /\ group # <<>> THEN CLOG_APPEND(st, cap, GroupText(group)) ELSE st

\* env = [wc, tid, no_color, curfd]: what the call reads from its environment.
\* The result is [buf, ret, hi]; ret is the function's return value.
clog_write_prefix_(dst, cap, lvl, file, line, group, env) ==
    \* s0 .. s5: the state after each CLOG_APPEND, each bound to its value
    CHOOSE r \in
        {[buf |-> s5.buf, ret |-> IF s5.pos >= cap THEN cap ELSE s5.pos, hi |-> s5.hi] :
           s5 \in {PrefixGroup(s4, cap, group) :
           s4 \in {PrefixSite(s3, cap, file, line) :
           s3 \in {PrefixTid(s2, cap, env.tid) :
           s2 \in {PrefixLevel(s1, cap, lvl, env.no_color, env.curfd) :
           s1 \in {PrefixTimestamp(s0, cap, env.wc) :
           s0 \in {[buf |-> dst, pos |-> 0, hi |-> -1]}}}}}}} : TRUE

----------------------------------------------------------------------------
(* clog_emit_, lines 538-579: the composition of the record in the buffer. *)
(* e = [buf, off, truncated, hi].  fmt = [err, text]: text is what the     *)
(* format and its arguments expand to, err that vsnprintf fails (n < 0);   *)
(* text is then what it had formatted before it failed, which it has       *)
(* stored, as far as it fits, with a NUL after it.                         *)

EmitPrefix(dst, cap, lvl, file, line, group, env) ==
    LET w == clog_write_prefix_(dst, cap, lvl, file, line, group, env)
    IN [buf |-> w.buf, off |-> w.ret, truncated |-> FALSE, hi |-> w.hi]

EmitMessage(e, cap, fmt) ==
    IF e.off < cap
    THEN LET avail == cap - e.off
         IN \* w: what vsnprintf left and returned, bound to its value
            CHOOSE x \in
              {LET n == IF fmt.err THEN -1 ELSE w.r
                   b == w.buf
                   hi == Max(e.hi, w.hi)
               IN IF n > 0
                  THEN IF n >= avail
                       THEN [buf |-> b, off |-> cap - 1, truncated |-> TRUE, hi |-> hi]
                       ELSE [buf |-> b, off |-> e.off + n, truncated |-> FALSE, hi |-> hi]
                  ELSE [buf |-> b, off |-> e.off, truncated |-> FALSE, hi |-> hi] :
                 w \in {snprintf_(e.buf, e.off, avail, fmt.text)}} : TRUE
    ELSE e

mlen == 3
mark == <<".", ".", ".">>

EmitMarker(e, cap) ==
    IF e.truncated /\ e.off + mlen < cap
    THEN [e EXCEPT !.buf = SubSeq(e.buf, 1, e.off) \o mark
                            \o SubSeq(e.buf, e.off + mlen + 1, Len(e.buf)),
                   !.off = e.off + mlen,
                   !.hi = Max(e.hi, e.off + mlen - 1)]
    ELSE e

\* no newline is added
EmitNewline_Never(e, cap) == e

\* EmitNewline without the test for a newline already present
EmitNewline_Always(e, cap) ==
    IF e.off + 1 < cap
    THEN [e EXCEPT !.buf = [e.buf EXCEPT ![e.off + 1] = NL, ![e.off + 2] = NUL],
                   !.off = e.off + 1,
                   !.hi = Max(e.hi, e.off + 1)]
    ELSE [e EXCEPT !.buf = [e.buf EXCEPT ![cap - 1] = NL, ![cap] = NUL],
                   !.off = cap - 1,
                   !.hi = Max(e.hi, cap - 1)]

EmitNewline(e, cap) ==
    IF e.off = 0 \/ At(e.buf, e.off - 1) # NL
    THEN IF e.off + 1 < cap
         THEN [e EXCEPT !.buf = [e.buf EXCEPT ![e.off + 1] = NL, ![e.off + 2] = NUL],
                        !.off = e.off + 1,
                        !.hi = Max(e.hi, e.off + 1)]
         ELSE [e EXCEPT !.buf = [e.buf EXCEPT ![cap - 1] = NL, ![cap] = NUL],
                        !.off = cap - 1,
                        !.hi = Max(e.hi, cap - 1)]
    ELSE e

\* The buffer and byte count clog_emit_ hands to clog_write_all_.
EmitCompose(dst, cap, lvl, file, line, group, fmt, env) ==
    \* prefix, message, marker, newline: each stage bound to its value
    CHOOSE r \in
        {EmitNewline(k, cap) :
           k \in {EmitMarker(m, cap) :
           m \in {EmitMessage(p, cap, fmt) :
           p \in {EmitPrefix(dst, cap, lvl, file, line, group, env)}}}} : TRUE

\* the n bytes at p[0..n-1]
Bytes(buf, n) == SubSeq(buf, 1, n)

----------------------------------------------------------------------------
(* clog_hash64_: 64-bit values are 8 bytes, least significant first *)

Ord(c) ==
    CASE c = "a" -> 97 [] c = "b" -> 98 [] c = "c" -> 99 [] c = "d" -> 100
      [] c = "e" -> 101 [] c = "f" -> 102 [] c = " " -> 32 [] OTHER -> 63

RECURSIVE XorByte(_, _, _)
\* a ^ b on the low n bits
XorByte(a, b, n) ==
    IF n = 0 THEN 0
    ELSE ((a + b) % 2) + 2 * XorByte(a \div 2, b \div 2, n - 1)

RECURSIVE MulSmall(_, _, _, _)
\* bytes i..8 of h * m plus carry, for a small multiplier m
MulSmall(hh, m, i, carry) ==
    IF i > 8 THEN <<>>
    ELSE LET v == hh[i] * m + carry
         IN <<v % 256>> \o MulSmall(hh, m, i + 1, v \div 256)

RECURSIVE AddU64(_, _, _, _)
\* bytes i..8 of a + b plus carry, modulo 2^64
AddU64(a, b, i, carry) ==
    IF i > 8 THEN <<>>
    ELSE LET v == a[i] + b[i] + carry
         IN <<v % 256>> \o AddU64(a, b, i + 1, v \div 256)

HashBasis == <<131, 3, 157, 115, 176, 15, 101, 20>>    \* 1469598103934665603
\* h * 1099511628211 = h * 2^40 + h * 435, modulo 2^64
MulPrime(hh) ==
    AddU64([i \in 1..8 |-> IF i > 5 THEN hh[i - 5] ELSE 0], MulSmall(hh, 435, 1, 0), 1, 0)

RECURSIVE HashFrom(_, _, _)
HashFrom(hh, s, i) ==
    IF i > Len(s) THEN hh
    ELSE HashFrom(MulPrime([hh EXCEPT ![1] = XorByte(hh[1], Ord(s[i]), 8)]), s, i + 1)

clog_hash64_(s) == HashFrom(HashBasis, s, 1)

ZeroKey == <<0, 0, 0, 0, 0, 0, 0, 0>>

----------------------------------------------------------------------------
(* The timer table of one thread: tm is g_timers of the calling thread *)

RECURSIVE FindFrom(_, _, _)
FindFrom(tm, key, i) ==
    IF i >= CLOG_TIMERS_MAX THEN -1
    ELSE IF tm[i].used /\ tm[i].key = key THEN i
    ELSE FindFrom(tm, key, i + 1)

\* a search that never finds the key
clog_timer_find_slot_Never(tm, key) == -1

\* a search that takes the first slot in use, whatever its key
clog_timer_find_slot_AnyKey(tm, key) ==
    IF \E i \in 0..(CLOG_TIMERS_MAX - 1) : tm[i].used
    THEN CHOOSE i \in 0..(CLOG_TIMERS_MAX - 1) : tm[i].used /\ \A j \in 0..(i - 1) : ~tm[j].used
    ELSE -1

\* a search that looks at the last slot only
clog_timer_find_slot_LastOnly(tm, key) == FindFrom(tm, key, CLOG_TIMERS_MAX - 1)

clog_timer_find_slot_(tm, key) == FindFrom(tm, key, 0)

RECURSIVE FreeFrom(_, _)
FreeFrom(tm, i) ==
    IF i >= CLOG_TIMERS_MAX THEN -1
    ELSE IF ~tm[i].used THEN i
    ELSE FreeFrom(tm, i + 1)

\* a search that runs one slot past the end of the table
clog_timer_free_slot_PastEnd(tm) == IF FreeFrom(tm, 0) < 0 THEN CLOG_TIMERS_MAX ELSE FreeFrom(tm, 0)

\* a search that gives up slot 0 when no slot is free
clog_timer_free_slot_Evicting(tm) == IF FreeFrom(tm, 0) < 0 THEN 0 ELSE FreeFrom(tm, 0)

clog_timer_free_slot_(tm) == FreeFrom(tm, 0)

Pow10(n) == IF n = 0 THEN 1 ELSE IF n = 3 THEN 1000 ELSE IF n = 6 THEN 1000000 ELSE 1000000000

\* x * 2^n modulo m for 0 <= x < m, by n doublings none of which exceeds m
RECURSIVE ShiftMod(_, _, _)
ShiftMod(x, n, m) ==
    IF n = 0 THEN x
    ELSE \* y: x doubled modulo m, bound to its value
         CHOOSE r \in {ShiftMod(y, n - 1, m) :
                          y \in {IF x >= m - x THEN x - (m - x) ELSE x + x}} : TRUE

\* the exponent of the greatest power of two that is <= q, for q >= 1
RECURSIVE Log2(_)
Log2(q) == IF q < 2 THEN 0 ELSE 1 + Log2(q \div 2)

\* the number of doublings that take x, 0 < x, to m or more
RECURSIVE DoublingsTo(_, _)
DoublingsTo(x, m) == IF x >= m THEN 0 ELSE 1 + DoublingsTo(x + x, m)

\* (double)dt / 1e3, / 1e6, / 1e9 with den the divisor: the quotient is the
\* double nearest to dt / den (53 bits, ties to the even mantissa).  The
\* result is 1 when that double is above dt / den, -1 when it is below, 0
\* when dt / den is a double.
DoubleQuotientError(dt, den) ==
    IF dt = 0 THEN 0
    ELSE LET sh == IF dt >= den THEN 52 - Log2(dt \div den) ELSE 52 + DoublingsTo(dt, den)
             r2 == ShiftMod(dt % (2 * den), sh, 2 * den)    \* dt * 2^sh modulo 2 den
             r == r2 % den                                  \* what the 53-bit mantissa leaves
             odd == r2 >= den                               \* the mantissa before rounding is odd
         IN IF r = 0 THEN 0
            ELSE IF r + r > den \/ (r + r = den /\ odd) THEN 1
            ELSE -1

\* "%.3f" and "%.6f" of the double (double)dt / 10^e, for e >= d: printf
\* rounds the exact value of the double to d decimals, halves to even.  dt /
\* 10^e lies half a unit of the last decimal from two neighbours only when
\* dt does, and then the double's rounding error, or with no error the even
\* neighbour, decides.
FixedText(dt, e, d) ==
    LET unit == Pow10(e - d)                   \* one unit of the last decimal
        below == dt \div unit
        rest == dt % unit
        err == DoubleQuotientError(dt, Pow10(e))
        q == IF rest + rest < unit THEN below
             ELSE IF rest + rest > unit THEN below + 1
             ELSE IF err > 0 THEN below + 1
             ELSE IF err < 0 THEN below
             ELSE IF below % 2 = 0 THEN below ELSE below + 1
    IN Dec(q \div Pow10(d)) \o <<".">> \o PadDec(q % Pow10(d), d)

CLOG_TIMER_UNIT_US == <<"\\xc2", "\\xb5", "s">>    \* the two UTF-8 bytes of the micro sign, then s

\* TimerText with the boundary values kept in the smaller unit
TimerText_BoundaryBelow(dt_ns, label) ==
    IF dt_ns <= CLOG_TIMER_NS_MAX
    THEN <<"[">> \o Dec(dt_ns) \o <<" ", "n", "s", "]", ":", " ">> \o label
    ELSE IF dt_ns <= CLOG_TIMER_US_MAX
    THEN <<"[">> \o FixedText(dt_ns, 3, 3) \o <<" ">> \o CLOG_TIMER_UNIT_US \o <<"]", ":", " ">> \o label
    ELSE IF dt_ns <= CLOG_TIMER_MS_MAX
    THEN <<"[">> \o FixedText(dt_ns, 6, 3) \o <<" ", "m", "s", "]", ":", " ">> \o label
    ELSE <<"[">> \o FixedText(dt_ns, 9, 6) \o <<" ", "s", "]", ":", " ">> \o label

\* the format and arguments clogp_timer_end_ passes on, expanded
TimerText(dt_ns, label) ==
    IF dt_ns < CLOG_TIMER_NS_MAX
    THEN <<"[">> \o Dec(dt_ns) \o <<" ", "n", "s", "]", ":", " ">> \o label
    ELSE IF dt_ns < CLOG_TIMER_US_MAX
    THEN <<"[">> \o FixedText(dt_ns, 3, 3) \o <<" ">> \o CLOG_TIMER_UNIT_US \o <<"]", ":", " ">> \o label
    ELSE IF dt_ns < CLOG_TIMER_MS_MAX
    THEN <<"[">> \o FixedText(dt_ns, 6, 3) \o <<" ", "m", "s", "]", ":", " ">> \o label
    ELSE <<"[">> \o FixedText(dt_ns, 9, 6) \o <<" ", "s", "]", ":", " ">> \o label

TimerGroup == <<"t", "i", "m", "e", "r">>

\* "no free timer slots (CLOG_TIMERS_MAX=%d)"
NoSlotText ==
    <<"n", "o", " ", "f", "r", "e", "e", " ", "t", "i", "m", "e", "r", " ", "s", "l", "o", "t", "s", " ",
      "(", "C", "L", "O", "G", "_", "T", "I", "M", "E", "R", "S", "_", "M", "A", "X", "=">>
    \o Dec(CLOG_TIMERS_MAX) \o <<")">>

\* "end_time for unknown label: %s"
UnknownText(label) ==
    <<"e", "n", "d", "_", "t", "i", "m", "e", " ", "f", "o", "r", " ", "u", "n", "k", "n", "o", "w", "n", " ",
      "l", "a", "b", "e", "l", ":", " ">> \o label

----------------------------------------------------------------------------
(* Inputs *)

Threads == {1, 2}
FDs == {CLOG_FD_STDERR, 3}

\* what clog_localtime_parts_ and clog_tid_ return
WallClock == [Y |-> 2026, m |-> 1, d |-> 2, H |-> 3, M |-> 4, S |-> 5, ms |-> 6]
TidOf(t) == 40 + t

ZeroBuf == Run(NUL, CLOG_LINE_MAX)
StaleBuf == Run(NL, CLOG_LINE_MAX)

SrcFile == <<"s", "/", "a", ".", "c">>
LongName == Run("f", CLOG_LINE_MAX + 1)
WinFile == <<"s", "/", "d", "\\", "b", ".", "c">>    \* a path whose last separator is a backslash

\* x^a \n^b y^c
Msg(a, b, c) == Run("x", a) \o Run(NL, b) \o Run("y", c)
Text(t) == [err |-> FALSE, text |-> t]
\* a format vsnprintf fails on after it has formatted pre
FmtErrorAfter(pre) == [err |-> TRUE, text |-> pre]
FmtError == FmtErrorAfter(<<>>)

MaxMsgLen == 34
MsgTails == {<<0, 0>>, <<1, 0>>, <<2, 0>>, <<1, 1>>, <<1, 2>>}

CLevels == {CLOG_INFO, CLOG_ERROR}
CFiles == {SrcFile, LongName, WinFile}
CGroups == {NULLP, <<>>, <<"g">>, Run("G", CLOG_LINE_MAX)}
CFmts == {Text(Msg(a, bc[1], bc[2])) : a \in 0..MaxMsgLen, bc \in MsgTails}
         \cup {FmtError, FmtErrorAfter(<<"a", "b", "c">>), FmtErrorAfter(Run("x", MaxMsgLen))}
CEnvs == {[wc |-> WallClock, tid |-> TidOf(1), no_color |-> nc, curfd |-> fd] :
            nc \in BOOLEAN, fd \in {CLOG_FD_STDERR}}
CBufs == {ZeroBuf, StaleBuf}

\* timer labels: one more than the table has slots
LabelChars == <<"a", "b", "c", "d", "e", "f">>
Labels == {<<LabelChars[i]>> : i \in 1..(CLOG_TIMERS_MAX + 1)}

\* sc[t] outside a CLOG_SCOPE_TIME statement.  Inside: pc is where the for
\* statement is, once its loop variable, and starts, runs and ends count the
\* calls of clog_start_time, the runs of the block and the calls of
\* clog_end_time since the statement was entered; exit is how the block was left.
ScOut == [pc |-> "out", label |-> <<>>, once |-> 0, exit |-> "none",
          starts |-> 0, runs |-> 0, ends |-> 0]

\* the locals of clog_emit_ outside a call
IdleLoc == [lvl |-> 0, file |-> <<>>, line |-> 0, group |-> NULLP, fmt |-> Text(<<>>),
            fd |-> 0, off |-> 0, p |-> 0, left |-> 0, rc |-> 0, eintr |-> 0,
            label |-> <<>>, dt |-> 0]

\* h[t]: k numbers the thread's calls that reach clog_emit_ or the timer table
NoCall ==
    [k |-> 0, api |-> "none", label |-> <<>>, line |-> 0, st |-> <<>>,
     reports |-> 0, lvl |-> -1, file |-> <<>>, group |-> NULLP, eline |-> 0, text |-> <<>>,
     thr |-> -1, passed |-> FALSE, fd |-> -1, off |-> 0, locks |-> 0, wrote |-> FALSE,
     acc |-> 0, wdone |-> FALSE, failed |-> FALSE, syncs |-> 0, sync_fd |-> -1,
     dt |-> -1, idx |-> -1, done |-> TRUE,
     arg |-> -1, ret |-> -1,       \* argument of a set call, return value of a get call
     setl |-> [at |-> 0, v |-> -1],   \* the thread's last clog_set_level: when (nops) and what
     setf |-> [at |-> 0, v |-> -1],   \* the thread's last clog_set_fd
     recs |-> 0,    \* the thread's calls so far that passed the threshold test
     lost |-> 0]    \* the thread's calls so far whose write failed

----------------------------------------------------------------------------
(* SpecCompose: clog_write_prefix_ and the composition of clog_emit_ applied *)
(* to one call, one step at a time.  cs.e.off is the cursor (pos, then off). *)

CsIdle == [pc |-> "none"]

St(e) == [buf |-> e.buf, pos |-> e.off, hi |-> e.hi]
Ev(st) == [buf |-> st.buf, off |-> st.pos, truncated |-> FALSE, hi |-> st.hi]

InitShared ==
    /\ g_lvl = CLOG_DEFAULT_LEVEL
    /\ g_fd = CLOG_FD_STDERR
    /\ g_lock = 0
    /\ g_buf = [t \in Threads |-> ZeroBuf]
    /\ g_timers = [t \in Threads |-> [i \in 0..(CLOG_TIMERS_MAX - 1) |->
                                        [key |-> ZeroKey, t0 |-> 0, used |-> FALSE]]]
    /\ pc = [t \in Threads |-> "idle"]
    /\ loc = [t \in Threads |-> IdleLoc]
    /\ out = [fd \in FDs |-> <<>>]
    /\ own = [fd \in FDs |-> <<>>]
    /\ nsync = [fd \in FDs |-> 0]
    /\ now = 0
    /\ nops = 0
    /\ h = [t \in Threads |-> [NoCall EXCEPT !.st = [l \in Labels |-> -1]]]
    /\ sc = [t \in Threads |-> ScOut]

shared_but_sc == <<g_lvl, g_fd, g_lock, g_buf, g_timers, pc, loc, out, own, nsync, now, nops, h>>
shared == <<g_lvl, g_fd, g_lock, g_buf, g_timers, pc, loc, out, own, nsync, now, nops, h, sc>>

InitCompose ==
    /\ InitShared
    /\ \E lvl \in CLevels, file \in CFiles, group \in CGroups, fmt \in CFmts,
          env \in CEnvs, dst \in CBufs :
          cs = [pc |-> "timestamp",
                in |-> [lvl |-> lvl, file |-> file, line |-> 7, group |-> group,
                        fmt |-> fmt, env |-> env],
                e |-> [buf |-> dst, off |-> 0, truncated |-> FALSE, hi |-> -1],
                poff |-> 0,     \* the offset clog_write_prefix_ returned
                pre |-> [buf |-> dst, off |-> 0, truncated |-> FALSE, hi |-> -1]]
                                \* the composition before the newline is enforced

CStep(from, to, e) ==
    /\ cs.pc = from
    /\ cs' = [cs EXCEPT !.pc = to, !.e = e,
                        !.poff = IF from = "group" THEN (IF e.off >= CLOG_LINE_MAX THEN CLOG_LINE_MAX ELSE e.off)
                                 ELSE @,
                        !.pre = IF from = "newline" THEN cs.e ELSE @]
    /\ UNCHANGED shared

CTimestamp == CStep("timestamp", "level", Ev(PrefixTimestamp(St(cs.e), CLOG_LINE_MAX, cs.in.env.wc)))
CLevel == CStep("level", "tid", Ev(PrefixLevel(St(cs.e), CLOG_LINE_MAX, cs.in.lvl,
                                                cs.in.env.no_color, cs.in.env.curfd)))
CTid == CStep("tid", "site", Ev(PrefixTid(St(cs.e), CLOG_LINE_MAX, cs.in.env.tid)))
CSite == CStep("site", "group", Ev(PrefixSite(St(cs.e), CLOG_LINE_MAX, cs.in.file, cs.in.line)))
CGroup == CStep("group", "message", Ev(PrefixGroup(St(cs.e), CLOG_LINE_MAX, cs.in.group)))
CMessage == CStep("message", "marker", EmitMessage(cs.e, CLOG_LINE_MAX, cs.in.fmt))
CMarker == CStep("marker", "newline", EmitMarker(cs.e, CLOG_LINE_MAX))
CNewline == CStep("newline", "done", EmitNewline(cs.e, CLOG_LINE_MAX))

NextCompose ==
    \/ CTimestamp \/ CLevel \/ CTid \/ CSite \/ CGroup
    \/ CMessage \/ CMarker \/ CNewline

SpecCompose == InitCompose /\ [][NextCompose]_vars

----------------------------------------------------------------------------
(* Spec: threads calling the API concurrently *)

MaxOps == 2          \* API calls in one run of Spec
MaxTimerOps == 3     \* API calls in one run of SpecTimer
MaxEintr == 1        \* interrupted writes in one clog_emit_
PipeRoom == 30       \* a short write accepts this many bytes
MaxNow == 3000       \* largest value of the monotonic clock

NoColorEnv == FALSE  \* NO_COLOR is not set
Site == [log |-> 7, start |-> 21, end |-> 22, banner |-> 665]    \* __LINE__ of the call sites

LogLevels == Levels
LogFmts == {Text(<<"h", "i">>)}
LogGroups == {NULLP, <<"g">>}    \* log_info(...) and log_info_group("g", ...)
HeaderFile == <<"c", "-", "l", "o", "g", ".", "h">>    \* __FILE__ inside c-log.h
BannerGroup == <<"c", "l", "o", "g">>
BannerText == <<"l", "o", "g", "g", "e", "r", " ", "r", "e", "a", "d", "y">>
ClockSteps == {5, 1500}
KeyOf == [l \in Labels |-> clog_hash64_(l)]    \* clog_hash64_ of each label, computed once
TimerThresholds == {CLOG_DEBUG, CLOG_ERROR}    \* with the default: all, some, no reports pass

\* the record of a new API call; st, the times of the starts, and the counts
\* recs and lost, and the last set calls are kept
NewCall(t, api, label, line) ==
    [NoCall EXCEPT !.k = h[t].k + 1, !.api = api, !.label = label, !.line = line,
                   !.st = h[t].st, !.done = FALSE, !.recs = h[t].recs, !.lost = h[t].lost,
                   !.setl = h[t].setl, !.setf = h[t].setf]

\* (int)lvl < clog_lvl_load_()
BelowThreshold_Inclusive(lvl, thr) == lvl <= thr
BelowThreshold_OffByOne(lvl, thr) == lvl + 1 < thr

BelowThreshold(lvl, thr) == lvl < thr

\* clog_log_file_line_ -> clog_vlog_file_line_ -> clog_emit_, up to the
\* threshold test of line 536; c is the record h[t] of the call.
CallEmit(t, c, lvl, file, line, group, fmt) ==
    LET below == BelowThreshold(lvl, g_lvl)
    IN /\ pc' = [pc EXCEPT ![t] = IF below THEN "idle" ELSE "fd"]
       /\ loc' = [loc EXCEPT ![t] = IF below THEN IdleLoc
                                    ELSE [IdleLoc EXCEPT !.lvl = lvl, !.file = file, !.line = line,
                                                         !.group = group, !.fmt = fmt]]
       /\ h' = [h EXCEPT ![t] = [c EXCEPT !.reports = c.reports + 1, !.lvl = lvl, !.file = file, !.group = group,
                                          !.eline = line, !.text = fmt.text, !.thr = g_lvl,
                                          !.passed = ~below, !.done = below,
                                          !.recs = c.recs + (IF below THEN 0 ELSE 1)]]

\* log_trace ... log_fatal (group NULL) and log_trace_group ...
\* log_fatal_group, with the group argument from groups
LogCall(t, groups) ==
    /\ pc[t] = "idle"
    /\ nops' = nops + 1
    /\ \E lvl \in LogLevels, fmt \in LogFmts, group \in groups :
          CallEmit(t, NewCall(t, "log", <<>>, Site.log), lvl, SrcFile, Site.log, group, fmt)
    /\ UNCHANGED <<g_lvl, g_fd, g_lock, g_buf, g_timers, out, own, nsync, now, cs, sc>>

\* clog_banner without CLOG_BUILD: log_info_group("clog", "logger ready"),
\* expanded inside c-log.h
clog_banner(t) ==
    /\ pc[t] = "idle"
    /\ nops' = nops + 1
    /\ CallEmit(t, NewCall(t, "banner", <<>>, Site.banner), CLOG_INFO, HeaderFile, Site.banner,
                BannerGroup, Text(BannerText))
    /\ UNCHANGED <<g_lvl, g_fd, g_lock, g_buf, g_timers, out, own, nsync, now, cs, sc>>

\* lines 323-326: the relaxed atomic loads of the two cells
clog_lvl_load_ == g_lvl
clog_fd_load_ == g_fd

\* clog_set_level with an argument from lvls (what is recorded in h is for
\* the caller to say)
clog_set_level(t, lvls) ==
    /\ pc[t] = "idle"
    /\ nops' = nops + 1
    /\ \E lvl \in lvls : g_lvl' = lvl
    /\ UNCHANGED <<g_fd, g_lock, g_buf, g_timers, pc, loc, out, own, nsync, now, cs, sc>>

\* a clog_set_fd that also puts the threshold back to the build default
clog_set_fd_ResetsLevel(t) ==
    /\ pc[t] = "idle"
    /\ nops' = nops + 1
    /\ \E fd \in FDs : g_fd' = fd
    /\ g_lvl' = CLOG_DEFAULT_LEVEL
    /\ UNCHANGED <<g_lock, g_buf, g_timers, pc, loc, out, own, nsync, now, cs, sc>>

\* clog_set_fd (what is recorded in h is for the caller to say)
clog_set_fd(t) ==
    /\ pc[t] = "idle"
    /\ nops' = nops + 1
    /\ \E fd \in FDs : g_fd' = fd
    /\ UNCHANGED <<g_lvl, g_lock, g_buf, g_timers, pc, loc, out, own, nsync, now, cs, sc>>

\* clog_get_level: the call returns the value loaded from g_lvl
clog_get_level(t) ==
    /\ pc[t] = "idle"
    /\ nops' = nops + 1
    /\ h' = [h EXCEPT ![t] = [NewCall(t, "get_level", <<>>, 0) EXCEPT !.ret = clog_lvl_load_, !.done = TRUE]]
    /\ UNCHANGED <<g_lvl, g_fd, g_lock, g_buf, g_timers, pc, loc, out, own, nsync, now, cs, sc>>

\* clog_get_fd: the call returns the value loaded from g_fd
clog_get_fd(t) ==
    /\ pc[t] = "idle"
    /\ nops' = nops + 1
    /\ h' = [h EXCEPT ![t] = [NewCall(t, "get_fd", <<>>, 0) EXCEPT !.ret = clog_fd_load_, !.done = TRUE]]
    /\ UNCHANGED <<g_lvl, g_fd, g_lock, g_buf, g_timers, pc, loc, out, own, nsync, now, cs, sc>>

\* line 538: int fd = clog_fd_load_()
LoadFd(t) ==
    /\ pc[t] = "fd"
    /\ loc' = [loc EXCEPT ![t].fd = g_fd]
    /\ pc' = [pc EXCEPT ![t] = "compose"]
    /\ h' = [h EXCEPT ![t].fd = g_fd]
    /\ UNCHANGED <<g_lvl, g_fd, g_lock, g_buf, g_timers, out, own, nsync, now, nops, cs, sc>>

\* the thread whose storage g_buf names in thread t (CLOG_THREADLOCAL)
BufOf_Shared(t) == 1

BufOf(t) == t

\* lines 539-579: the record is composed in g_buf; clog_color_enabled_ loads g_fd
Compose(t) ==
    /\ pc[t] = "compose"
    /\ LET env == [wc |-> WallClock, tid |-> TidOf(t), no_color |-> NoColorEnv, curfd |-> g_fd]
       IN \E e \in {EmitCompose(g_buf[BufOf(t)], CLOG_LINE_MAX, loc[t].lvl, loc[t].file, loc[t].line,
                                loc[t].group, loc[t].fmt, env)} :
             /\ g_buf' = [g_buf EXCEPT ![BufOf(t)] = e.buf]
             /\ loc' = [loc EXCEPT ![t].off = e.off]
             /\ h' = [h EXCEPT ![t].off = e.off]
    /\ pc' = [pc EXCEPT ![t] = "lock"]
    /\ UNCHANGED <<g_lvl, g_fd, g_lock, g_timers, out, own, nsync, now, nops, cs, sc>>

Locking == CLOG_THREAD_SAFE = 1 /\ CLOG_LOCK_KIND \in {1, 2}

\* whether clog_lock_ returns when the lock word holds lk
CanLock_None(lk) == TRUE

CanLock(lk) == IF Locking THEN lk = 0 ELSE TRUE

\* line 582: clog_lock_(), then the entry of clog_write_all_
clog_lock_(t) ==
    /\ pc[t] = "lock"
    /\ CanLock(g_lock)
    /\ g_lock' = IF Locking THEN t ELSE g_lock
    /\ loc' = [loc EXCEPT ![t].p = 0, ![t].left = loc[t].off]
    /\ pc' = [pc EXCEPT ![t] = "write"]
    /\ h' = [h EXCEPT ![t].locks = @ + 1]
    /\ UNCHANGED <<g_lvl, g_fd, g_buf, g_timers, out, own, nsync, now, nops, cs, sc>>

\* the counts a CLOG_WRITE of left bytes may accept
WriteSizes(left) == {left} \cup {r \in {PipeRoom} : r < left}

\* a write loop that returns 0 after the first CLOG_WRITE that accepted bytes
WriteSome_Once(t) ==
    /\ pc[t] = "write"
    /\ loc[t].left > 0
    /\ \E r \in WriteSizes(loc[t].left) :
          LET fd == loc[t].fd
              p == loc[t].p
          IN /\ out' = [out EXCEPT ![fd] = @ \o SubSeq(g_buf[BufOf(t)], p + 1, p + r)]
             /\ own' = [own EXCEPT ![fd] = Append(@, [t |-> t, k |-> h[t].k, p |-> p, n |-> r])]
             /\ loc' = [loc EXCEPT ![t].p = p + r, ![t].left = @ - r,
                                   ![t].rc = 0]
             /\ pc' = [pc EXCEPT ![t] = "unlock"]
             /\ h' = [h EXCEPT ![t].wrote = TRUE, ![t].acc = @ + r,
                               ![t].wdone = TRUE]
    /\ UNCHANGED <<g_lvl, g_fd, g_lock, g_buf, g_timers, nsync, now, nops, cs, sc>>

\* a write loop that loads g_fd again for every CLOG_WRITE
WriteSome_CurrentFd(t) ==
    /\ pc[t] = "write"
    /\ loc[t].left > 0
    /\ \E r \in WriteSizes(loc[t].left) :
          LET fd == g_fd
              p == loc[t].p
          IN /\ out' = [out EXCEPT ![fd] = @ \o SubSeq(g_buf[BufOf(t)], p + 1, p + r)]
             /\ own' = [own EXCEPT ![fd] = Append(@, [t |-> t, k |-> h[t].k, p |-> p, n |-> r])]
             /\ loc' = [loc EXCEPT ![t].p = p + r, ![t].left = @ - r,
                                   ![t].rc = 0]
             /\ pc' = [pc EXCEPT ![t] = IF loc[t].left - r = 0 THEN "unlock" ELSE "write"]
             /\ h' = [h EXCEPT ![t].wrote = TRUE, ![t].acc = @ + r,
                               ![t].wdone = (loc[t].left - r = 0)]
    /\ UNCHANGED <<g_lvl, g_fd, g_lock, g_buf, g_timers, nsync, now, nops, cs, sc>>

\* clog_write_all_: one CLOG_WRITE that accepts r > 0 bytes
WriteSome(t) ==
    /\ pc[t] = "write"
    /\ loc[t].left > 0
    /\ \E r \in WriteSizes(loc[t].left) :
          LET fd == loc[t].fd
              p == loc[t].p
          IN /\ out' = [out EXCEPT ![fd] = @ \o SubSeq(g_buf[BufOf(t)], p + 1, p + r)]
             /\ own' = [own EXCEPT ![fd] = Append(@, [t |-> t, k |-> h[t].k, p |-> p, n |-> r])]
             /\ loc' = [loc EXCEPT ![t].p = p + r, ![t].left = @ - r,
                                   ![t].rc = 0]
             /\ pc' = [pc EXCEPT ![t] = IF loc[t].left - r = 0 THEN "unlock" ELSE "write"]
             /\ h' = [h EXCEPT ![t].wrote = TRUE, ![t].acc = @ + r,
                               ![t].wdone = (loc[t].left - r = 0)]
    /\ UNCHANGED <<g_lvl, g_fd, g_lock, g_buf, g_timers, nsync, now, nops, cs, sc>>

\* clog_write_all_: a CLOG_WRITE that fails with EINTR is repeated
WriteEintr(t) ==
    /\ pc[t] = "write"
    /\ loc[t].left > 0
    /\ loc[t].eintr < MaxEintr
    /\ loc' = [loc EXCEPT ![t].eintr = @ + 1]
    /\ h' = [h EXCEPT ![t].wrote = TRUE]
    /\ UNCHANGED <<g_lvl, g_fd, g_lock, g_buf, g_timers, pc, out, own, nsync, now, nops, cs, sc>>

\* clog_write_all_: a CLOG_WRITE that returns 0, or fails with another error
WriteFail(t) ==
    /\ pc[t] = "write"
    /\ loc[t].left > 0
    /\ loc' = [loc EXCEPT ![t].rc = -1]
    /\ pc' = [pc EXCEPT ![t] = "unlock"]
    /\ h' = [h EXCEPT ![t].wrote = TRUE, ![t].failed = TRUE, ![t].wdone = TRUE, ![t].lost = @ + 1]
    /\ UNCHANGED <<g_lvl, g_fd, g_lock, g_buf, g_timers, out, own, nsync, now, nops, cs, sc>>

\* an unlock that is skipped when clog_write_all_ returned -1
clog_unlock_SkippedOnError(t) ==
    /\ pc[t] = "unlock"
    /\ g_lock' = IF Locking /\ loc[t].rc = 0 THEN 0 ELSE g_lock
    /\ pc' = [pc EXCEPT ![t] = "flush"]
    /\ UNCHANGED <<g_lvl, g_fd, g_buf, g_timers, loc, out, own, nsync, now, nops, h, cs, sc>>

\* an unlock that leaves the lock word as it is
clog_unlock_Kept(t) ==
    /\ pc[t] = "unlock"
    /\ g_lock' = g_lock
    /\ pc' = [pc EXCEPT ![t] = "flush"]
    /\ UNCHANGED <<g_lvl, g_fd, g_buf, g_timers, loc, out, own, nsync, now, nops, h, cs, sc>>

\* line 584: clog_unlock_()
clog_unlock_(t) ==
    /\ pc[t] = "unlock"
    /\ g_lock' = IF Locking THEN 0 ELSE g_lock
    /\ pc' = [pc EXCEPT ![t] = "flush"]
    /\ UNCHANGED <<g_lvl, g_fd, g_buf, g_timers, loc, out, own, nsync, now, nops, h, cs, sc>>

\* whether clog_emit_ calls fsync after the write
FlushesAt_Never(lvl) == FALSE

FlushesAt(lvl) == lvl = CLOG_FATAL

\* lines 589-594: fsync for CLOG_FATAL, then clog_emit_ and the API call return
Finish(t) ==
    /\ pc[t] = "flush"
    /\ IF FlushesAt(loc[t].lvl)
       THEN /\ nsync' = [nsync EXCEPT ![loc[t].fd] = @ + 1]
            /\ h' = [h EXCEPT ![t].syncs = @ + 1, ![t].sync_fd = loc[t].fd, ![t].done = TRUE]
       ELSE /\ nsync' = nsync
            /\ h' = [h EXCEPT ![t].done = TRUE]
    /\ pc' = [pc EXCEPT ![t] = "idle"]
    /\ loc' = [loc EXCEPT ![t] = IdleLoc]
    /\ UNCHANGED <<g_lvl, g_fd, g_lock, g_buf, g_timers, out, own, now, nops, cs, sc>>

\* the values clog_now_ns_mono_ may return after it returned now
ClockReads == {now + d : d \in {d \in ClockSteps : now + d <= MaxNow}}

\* an elapsed time that forgets the stored start
ElapsedNs_SinceBoot(tnow, t0) == tnow

\* line 644: clog_now_ns_mono_() - g_timers[idx].t0 in uint64_t; the clock never
\* goes back, so the difference does not wrap
ElapsedNs(tnow, t0) == tnow - t0

\* one timer table for all threads
TimersOf_Shared(t) == 1

\* line 379: g_timers is CLOG_THREADLOCAL, thread t works on its own table
TimersOf(t) == t

\* clogp_timer_start_ called from line line of SrcFile (what becomes of sc
\* is for the caller to say)
clogp_timer_start_(t, line) ==
    /\ pc[t] = "idle"
    /\ nops' = nops + 1
    /\ \E label \in Labels :
          LET key == KeyOf[label]
              found == clog_timer_find_slot_(g_timers[TimersOf(t)], key)
              idx == IF found < 0 THEN clog_timer_free_slot_(g_timers[TimersOf(t)]) ELSE found
              c == [NewCall(t, "start", label, line) EXCEPT !.idx = idx]
          IN IF idx >= 0
             THEN \E tnow \in ClockReads :
                     /\ g_timers' = [g_timers EXCEPT ![TimersOf(t)][idx] = [key |-> key, t0 |-> tnow, used |-> TRUE]]
                     /\ now' = tnow
                     /\ h' = [h EXCEPT ![t] = [c EXCEPT !.done = TRUE, !.st = [@ EXCEPT ![label] = tnow]]]
                     /\ UNCHANGED <<pc, loc>>
             ELSE /\ CallEmit(t, c, CLOG_WARN, SrcFile, line, TimerGroup, Text(NoSlotText))
                  /\ UNCHANGED <<g_timers, now>>
    /\ UNCHANGED <<g_lvl, g_fd, g_lock, g_buf, out, own, nsync, cs>>

\* an end that frees the slot only when its report would pass the threshold
clogp_timer_end_IfReported(t, line) ==
    /\ pc[t] = "idle"
    /\ nops' = nops + 1
    /\ \E label \in Labels :
          LET key == KeyOf[label]
              idx == clog_timer_find_slot_(g_timers[TimersOf(t)], key)
              c == [NewCall(t, "end", label, line) EXCEPT !.idx = idx]
          IN IF idx < 0
             THEN /\ CallEmit(t, c, CLOG_WARN, SrcFile, line, TimerGroup, Text(UnknownText(label)))
                  /\ UNCHANGED <<g_timers, now>>
             ELSE \E tnow \in ClockReads :
                     LET dt_ns == ElapsedNs(tnow, g_timers[TimersOf(t)][idx].t0)
                     IN /\ now' = tnow
                        /\ g_timers' = IF BelowThreshold(CLOG_DEBUG, g_lvl) THEN g_timers
                                       ELSE [g_timers EXCEPT ![TimersOf(t)][idx].used = FALSE]
                        /\ pc' = [pc EXCEPT ![t] = "report"]
                        /\ loc' = [loc EXCEPT ![t] = [IdleLoc EXCEPT !.line = line, !.label = label,
                                                                     !.dt = dt_ns]]
                        /\ h' = [h EXCEPT ![t] = [c EXCEPT !.dt = dt_ns]]
    /\ UNCHANGED <<g_lvl, g_fd, g_lock, g_buf, out, own, nsync, cs>>

\* clogp_timer_end_ called from line line of SrcFile, up to the call of
\* clog_log_file_line_: with no slot for the label that call is part of the
\* step (nothing shared is read before it); otherwise the step reads the
\* clock and frees the slot (lines 644-645), and the report follows in
\* TimerReport (what becomes of sc is for the caller to say)
clogp_timer_end_(t, line) ==
    /\ pc[t] = "idle"
    /\ nops' = nops + 1
    /\ \E label \in Labels :
          LET key == KeyOf[label]
              idx == clog_timer_find_slot_(g_timers[TimersOf(t)], key)
              c == [NewCall(t, "end", label, line) EXCEPT !.idx = idx]
          IN IF idx < 0
             THEN /\ CallEmit(t, c, CLOG_WARN, SrcFile, line, TimerGroup, Text(UnknownText(label)))
                  /\ UNCHANGED <<g_timers, now>>
             ELSE \E tnow \in ClockReads :
                     LET dt_ns == ElapsedNs(tnow, g_timers[TimersOf(t)][idx].t0)
                     IN /\ now' = tnow
                        /\ g_timers' = [g_timers EXCEPT ![TimersOf(t)][idx].used = FALSE]
                        /\ pc' = [pc EXCEPT ![t] = "report"]
                        /\ loc' = [loc EXCEPT ![t] = [IdleLoc EXCEPT !.line = line, !.label = label,
                                                                     !.dt = dt_ns]]
                        /\ h' = [h EXCEPT ![t] = [c EXCEPT !.dt = dt_ns]]
    /\ UNCHANGED <<g_lvl, g_fd, g_lock, g_buf, out, own, nsync, cs>>

\* lines 646-657 of clogp_timer_end_: the report of the elapsed time goes to
\* clog_log_file_line_, which loads the threshold now
TimerReport(t) ==
    /\ pc[t] = "report"
    /\ CallEmit(t, h[t], CLOG_DEBUG, SrcFile, loc[t].line, TimerGroup,
                Text(TimerText(loc[t].dt, loc[t].label)))
    /\ UNCHANGED <<g_lvl, g_fd, g_lock, g_buf, g_timers, out, own, nsync, now, nops, cs, sc>>

Init == InitShared /\ cs = CsIdle

\* the steps of clog_emit_ after the threshold test
EmitStep(t) ==
    \/ LoadFd(t)
    \/ Compose(t)
    \/ clog_lock_(t)
    \/ WriteSome(t)
    \/ WriteEintr(t)
    \/ WriteFail(t)
    \/ clog_unlock_(t)
    \/ Finish(t)

\* Spec: log calls and configuration changes from every thread, every outcome
\* of the write
Next ==
    \E t \in Threads :
        \/ (nops < MaxOps /\ LogCall(t, {NULLP}))
        \/ (nops < MaxOps /\ clog_set_level(t, Levels) /\ UNCHANGED h)
        \/ (nops < MaxOps /\ clog_set_fd(t) /\ UNCHANGED h)
        \/ EmitStep(t)

Spec == Init /\ [][Next]_vars

\* SpecApi: every entry point that logs (the log macros with and without a
\* group, clog_banner), from every thread; every write is accepted in full
MaxApiOps == 2
NextApi ==
    \E t \in Threads :
        \/ (nops < MaxApiOps /\ LogCall(t, LogGroups))
        \/ (nops < MaxApiOps /\ clog_banner(t))
        \/ LoadFd(t)
        \/ Compose(t)
        \/ clog_lock_(t)
        \/ (WriteSome(t) /\ loc'[t].left = 0)
        \/ clog_unlock_(t)
        \/ Finish(t)

SpecApi == Init /\ [][NextApi]_vars

\* SpecTimer: timer calls and threshold changes from every thread; the
\* reports go through clog_emit_ and every write is accepted in full
NextTimer ==
    \E t \in Threads :
        \/ (nops < MaxTimerOps /\ clogp_timer_start_(t, Site.start) /\ UNCHANGED sc)
        \/ (nops < MaxTimerOps /\ clogp_timer_end_(t, Site.end) /\ UNCHANGED sc)
        \/ TimerReport(t)
        \/ (nops < MaxTimerOps /\ clog_set_level(t, TimerThresholds) /\ UNCHANGED h)
        \/ LoadFd(t)
        \/ Compose(t)
        \/ clog_lock_(t)
        \/ (WriteSome(t) /\ loc'[t].left = 0)
        \/ clog_unlock_(t)
        \/ Finish(t)

SpecTimer == Init /\ [][NextTimer]_vars

----------------------------------------------------------------------------
(* SpecLive: log, start and end calls from every thread, with writes that   *)
(* are short, interrupted or failing, under the scheduling the calls rely   *)
(* on: a thread inside a call keeps running, the lock is granted to every   *)
(* waiter in the end, and a write is not interrupted for ever.              *)

MaxLiveOps == 2      \* API calls in a behaviour of SpecLive

\* the labels started before a behaviour of SpecLive begins, by slot: as many
\* as a table holds
LiveStarted == [i \in 0..(CLOG_TIMERS_MAX - 1) |-> <<LabelChars[i + 1]>>]
\* the shortest step of the clock
LiveTick == CHOOSE d \in ClockSteps : \A e \in ClockSteps : d <= e
\* the clock read by the start of LiveStarted[i] on thread t: thread 1 makes
\* its starts first, slot by slot, then thread 2, a tick apart
StartedAt(t, i) == ((t - 1) * CLOG_TIMERS_MAX + i + 1) * LiveTick

\* the program after clog_set_level(CLOG_DEBUG) and, on every thread, a
\* clog_start_time of each label of LiveStarted: every report passes the
\* threshold and every table is full
InitStarted ==
    /\ g_lvl = CLOG_DEBUG
    /\ g_fd = CLOG_FD_STDERR
    /\ g_lock = 0
    /\ g_buf = [t \in Threads |-> ZeroBuf]
    /\ g_timers = [t \in Threads |-> [i \in 0..(CLOG_TIMERS_MAX - 1) |->
                     [key |-> KeyOf[LiveStarted[i]], t0 |-> StartedAt(t, i), used |-> TRUE]]]
    /\ pc = [t \in Threads |-> "idle"]
    /\ loc = [t \in Threads |-> IdleLoc]
    /\ out = [fd \in FDs |-> <<>>]
    /\ own = [fd \in FDs |-> <<>>]
    /\ nsync = [fd \in FDs |-> 0]
    /\ now = Cardinality(Threads) * CLOG_TIMERS_MAX * LiveTick
    /\ nops = 0
    /\ h = [t \in Threads |->
              [NoCall EXCEPT !.k = CLOG_TIMERS_MAX, !.api = "start",
                             !.label = LiveStarted[CLOG_TIMERS_MAX - 1], !.line = Site.start,
                             !.idx = CLOG_TIMERS_MAX - 1,
                             !.st = [l \in Labels |->
                                       IF \E i \in DOMAIN LiveStarted : LiveStarted[i] = l
                                       THEN StartedAt(t, CHOOSE i \in DOMAIN LiveStarted : LiveStarted[i] = l)
                                       ELSE -1]]]
    /\ sc = [t \in Threads |-> ScOut]
    /\ cs = CsIdle

\* SpecLive begins after construction, or after the calls of InitStarted
InitLive == Init \/ InitStarted

\* the labels of the timer calls of SpecLive: one that InitStarted has started
\* and the one it has not, for which a full table has no slot
LiveLabels == {LiveStarted[0], <<LabelChars[CLOG_TIMERS_MAX + 1]>>}

\* the calls of SpecLive: log_info, and the timer calls for LiveLabels with
\* a clock that moves by LiveTick
LiveLog(t) == LogCall(t, {NULLP}) /\ h'[t].lvl = CLOG_INFO
LiveStart(t) == clogp_timer_start_(t, Site.start) /\ h'[t].label \in LiveLabels /\ now' <= now + LiveTick
LiveEnd(t) == clogp_timer_end_(t, Site.end) /\ h'[t].label \in LiveLabels /\ now' <= now + LiveTick

NextLive ==
    \E t \in Threads :
        \/ (nops < MaxLiveOps /\ LiveLog(t))
        \/ (nops < MaxLiveOps /\ LiveStart(t) /\ UNCHANGED sc)
        \/ (nops < MaxLiveOps /\ LiveEnd(t) /\ UNCHANGED sc)
        \/ TimerReport(t)
        \/ LoadFd(t)
        \/ Compose(t)
        \/ clog_lock_(t)
        \/ WriteSome(t)
        \/ WriteEintr(t)
        \/ WriteFail(t)
        \/ clog_unlock_(t)
        \/ Finish(t)

\* the steps of a call that depend on nothing but the thread running: all but
\* the wait for the lock.  A CLOG_WRITE returns in one of its three ways
\* (some bytes written, EINTR, another failure); which one is not said
Runs(t) ==
    \/ TimerReport(t)
    \/ LoadFd(t)
    \/ Compose(t)
    \/ WriteSome(t)
    \/ WriteEintr(t)
    \/ WriteFail(t)
    \/ clog_unlock_(t)
    \/ Finish(t)

\* a thread inside a call keeps running, and the lock is granted to every
\* waiter in the end; that a write is interrupted at most MaxEintr times in
\* a row is in WriteEintr
FairLive ==
    \A t \in Threads :
        /\ WF_vars(Runs(t))
        /\ SF_vars(clog_lock_(t))

SpecLive == InitLive /\ [][NextLive]_vars /\ FairLive

----------------------------------------------------------------------------
(* SpecUnit: the choice of unit and format in clogp_timer_end_, lines       *)
(* 646-657, applied to one elapsed time dt_ns.                              *)

UnitSpan == 3        \* elapsed times up to this far from each boundary are tried

\* elapsed times at, below and above 0 and the three boundaries
\* elapsed times half a unit of the last decimal printed from two neighbours
TieDts == {1000500, 1002500, 1062500, 1187500, 1000001500}
UnitDts ==
    ({b + d : b \in {0, CLOG_TIMER_NS_MAX, CLOG_TIMER_US_MAX, CLOG_TIMER_MS_MAX},
              d \in (0 - UnitSpan)..UnitSpan} \cap Nat)
    \cup TieDts

InitUnit ==
    /\ InitShared
    /\ cs \in {[pc |-> "dt", dt |-> d, label |-> l, text |-> <<>>] : d \in UnitDts, l \in Labels}

\* lines 646-657: the report for cs.dt is formatted
UStep ==
    /\ cs.pc = "dt"
    /\ cs' = [cs EXCEPT !.pc = "report", !.text = TimerText(cs.dt, cs.label)]
    /\ UNCHANGED shared

NextUnit == UStep

SpecUnit == InitUnit /\ [][NextUnit]_vars

----------------------------------------------------------------------------
(* SpecCells: the set and get calls of the two cells g_lvl and g_fd from    *)
(* every thread, among timer calls whose reports go through clog_emit_.     *)

MaxCellOps == 2      \* API calls in a behaviour of SpecCells

\* clog_set_level(lvl), recorded with its argument and its place in the order of calls
SetLevel(t) ==
    /\ clog_set_level(t, TimerThresholds)
    /\ h' = [h EXCEPT ![t] = [NewCall(t, "set_level", <<>>, 0)
                                EXCEPT !.arg = g_lvl', !.done = TRUE,
                                       !.setl = [at |-> nops', v |-> g_lvl']]]

\* clog_set_fd(fd), recorded in the same way
SetFd(t) ==
    /\ clog_set_fd(t)
    /\ h' = [h EXCEPT ![t] = [NewCall(t, "set_fd", <<>>, 0)
                                EXCEPT !.arg = g_fd', !.done = TRUE,
                                       !.setf = [at |-> nops', v |-> g_fd']]]

NextCells ==
    \E t \in Threads :
        \/ (nops < MaxCellOps /\ SetLevel(t))
        \/ (nops < MaxCellOps /\ SetFd(t))
        \/ (nops < MaxCellOps /\ clog_get_level(t))
        \/ (nops < MaxCellOps /\ clog_get_fd(t))
        \/ (nops < MaxCellOps /\ clogp_timer_start_(t, Site.start) /\ UNCHANGED sc)
        \/ (nops < MaxCellOps /\ clogp_timer_end_(t, Site.end) /\ UNCHANGED sc)
        \/ TimerReport(t)
        \/ LoadFd(t)
        \/ Compose(t)
        \/ clog_lock_(t)
        \/ (WriteSome(t) /\ loc'[t].left = 0)
        \/ clog_unlock_(t)
        \/ Finish(t)

SpecCells == Init /\ [][NextCells]_vars

----------------------------------------------------------------------------
(* SpecScope: CLOG_SCOPE_TIME(label) block, lines 268-273:                  *)
(*   for (int once = (clog_start_time(label), 0); !once;                    *)
(*        (clog_end_time(label), once = 1)) block                           *)

MaxScopeOps == 3     \* a statement is entered while fewer timer calls were made

\* the ways a block can be left: off its end, or by a jump statement
Exits == {"end", "continue", "break", "return", "goto"}
\* whether leaving the block that way runs the third expression of the for
\* statement: only the end of the body and continue go there; break, return
\* and goto leave the statement
RunsIteration(x) == x \in {"end", "continue"}

\* the init clause: clog_start_time(label), then once = 0
ScopeInit(t) ==
    /\ sc[t].pc = "out"
    /\ nops < MaxScopeOps
    /\ clogp_timer_start_(t, Site.start)
    /\ sc' = [sc EXCEPT ![t] = [ScOut EXCEPT !.pc = "test", !.label = h'[t].label,
                                             !.once = 0, !.starts = 1]]

\* the condition !once, once the call before it has returned
ScopeTest(t) ==
    /\ sc[t].pc = "test"
    /\ pc[t] = "idle"
    /\ sc' = [sc EXCEPT ![t].pc = IF sc[t].once = 0 THEN "body" ELSE "left"]
    /\ UNCHANGED <<shared_but_sc, cs>>

\* the block runs and is left in one of the ways of Exits
ScopeBody(t) ==
    /\ sc[t].pc = "body"
    /\ \E x \in Exits :
          sc' = [sc EXCEPT ![t].runs = @ + 1, ![t].exit = x,
                           ![t].pc = IF RunsIteration(x) THEN "iteration" ELSE "left"]
    /\ UNCHANGED <<shared_but_sc, cs>>

\* the third expression: clog_end_time(label), then once = 1; the macro's
\* two calls are on one source line, the line of the statement
ScopeIteration(t) ==
    /\ sc[t].pc = "iteration"
    /\ clogp_timer_end_(t, Site.start)
    /\ h'[t].label = sc[t].label
    /\ sc' = [sc EXCEPT ![t].pc = "test", ![t].once = 1, ![t].ends = @ + 1]

\* the statement after the for statement, or the target of the jump
ScopeLeave(t) ==
    /\ sc[t].pc = "left"
    /\ sc' = [sc EXCEPT ![t] = ScOut]
    /\ UNCHANGED <<shared_but_sc, cs>>

NextScope ==
    \E t \in Threads :
        \/ ScopeInit(t)
        \/ ScopeTest(t)
        \/ ScopeBody(t)
        \/ ScopeIteration(t)
        \/ ScopeLeave(t)
        \/ TimerReport(t)
        \/ LoadFd(t)
        \/ Compose(t)
        \/ clog_lock_(t)
        \/ (WriteSome(t) /\ loc'[t].left = 0)
        \/ clog_unlock_(t)
        \/ Finish(t)

SpecScope == Init /\ [][NextScope]_vars

----------------------------------------------------------------------------
(* Claims about the composition of one record (SpecCompose) *)

CsRecord == Bytes(cs.e.buf, cs.e.off)       \* what is handed to the write
CsContent == Bytes(cs.pre.buf, cs.pre.off)  \* the composition before the newline step
EndsInNL(r) == r # <<>> /\ r[Len(r)] = NL
HasMark(r) == \E i \in 1..(Len(r) - 2) : SubSeq(r, i, i + 2) = mark
\* no newline among the bytes of the message before its last one
InnerNLFree(t) == \A i \in 1..(Len(t) - 1) : t[i] # NL
NLFree(t) == \A i \in 1..Len(t) : t[i] # NL

\* C3 as stated: the record handed to the write ends with exactly one newline
\* byte, for every prefix length and every message.
C3_ExactlyOneNewline ==
    cs.pc = "done" =>
        /\ EndsInNL(CsRecord)
        /\ Len(CsRecord) >= 2 => CsRecord[Len(CsRecord) - 1] # NL

\* C3 amended: the record ends with a newline; the newline step adds exactly
\* one newline when the composed content does not end in one (appended, or
\* stored over the last content byte when the buffer is full) and none when
\* it does; the final newline is the only one at the end whenever file
\* name, group and message hold no newline before the message's last byte;
\* the record ends in two newlines exactly when the composed content ends in
\* two newlines, or fills the buffer, does not end in a newline and has a
\* newline as its last byte but one.
C3_NewlineTerminated ==
    cs.pc = "done" =>
        /\ EndsInNL(CsRecord)
        /\ EndsInNL(CsContent) => CsRecord = CsContent
        /\ ~EndsInNL(CsContent) =>
              \/ /\ Len(CsContent) + 1 < CLOG_LINE_MAX
                 /\ CsRecord = CsContent \o <<NL>>
              \/ /\ Len(CsContent) = CLOG_LINE_MAX - 1
                 /\ CsRecord = SubSeq(CsContent, 1, CLOG_LINE_MAX - 2) \o <<NL>>
        /\ (InnerNLFree(cs.in.fmt.text) /\ NLFree(cs.in.file) /\ NLFree(cs.in.group)
            /\ Len(CsRecord) >= 2) =>
              CsRecord[Len(CsRecord) - 1] # NL
        /\ Len(CsRecord) >= 2 =>
              (CsRecord[Len(CsRecord) - 1] = NL <=>
                 \/ /\ EndsInNL(CsContent)
                    /\ CsContent[Len(CsContent) - 1] = NL
                 \/ /\ ~EndsInNL(CsContent)
                    /\ Len(CsContent) = CLOG_LINE_MAX - 1
                    /\ CsContent[CLOG_LINE_MAX - 2] = NL)

\* C3 witness: an overflowing message with a newline just before the cut, so
\* the newline is stored over the last content byte.
C3_Witness ==
    /\ cs.pc = "done"
    /\ cs.pre.truncated
    /\ ~EndsInNL(CsContent)
    /\ CsRecord[Len(CsRecord) - 1] = NL

\* C4 as stated: a message whose length meets or exceeds the space left after
\* the prefix is emitted as CLOG_LINE_MAX - 1 bytes that end in exactly one
\* newline and contain the marker "...".
C4_TruncationMarker ==
    (cs.pc = "done" /\ ~cs.in.fmt.err /\ cs.poff < CLOG_LINE_MAX
        /\ Len(cs.in.fmt.text) >= CLOG_LINE_MAX - cs.poff) =>
        /\ Len(CsRecord) = CLOG_LINE_MAX - 1
        /\ EndsInNL(CsRecord)
        /\ CsRecord[Len(CsRecord) - 1] # NL
        /\ HasMark(CsRecord)

\* C5: every append of the prefix leaves the cursor at most
\* CLOG_LINE_MAX - 1, no step stores at an index >= CLOG_LINE_MAX, and the
\* count handed to the write is in 1..CLOG_LINE_MAX - 1.
C5_BufferBounds ==
    /\ cs.e.hi <= CLOG_LINE_MAX - 1
    /\ cs.pc \in {"level", "tid", "site", "group", "message"} => cs.e.off <= CLOG_LINE_MAX - 1
    /\ cs.pc = "done" => (cs.e.off >= 1 /\ cs.e.off <= CLOG_LINE_MAX - 1)

\* C5 witness: a file name longer than the buffer, the cursor stopped at the
\* last index, and a record of CLOG_LINE_MAX - 1 bytes handed to the write.
C5_Witness ==
    /\ cs.pc = "done"
    /\ cs.in.file = LongName
    /\ cs.poff = CLOG_LINE_MAX - 1
    /\ cs.e.hi = CLOG_LINE_MAX - 1
    /\ cs.e.off = CLOG_LINE_MAX - 1

----------------------------------------------------------------------------
(* Claims about concurrent log calls (Spec) *)

\* the positions in the stream of fd of the writes of call k of thread t
RecIdx(fd, t, k) == {i \in 1..Len(own[fd]) : own[fd][i].t = t /\ own[fd][i].k = k}
\* the number of bytes in the stream of fd before its i-th write
RECURSIVE ChunkStart(_, _)
ChunkStart(fd, i) == IF i <= 1 THEN 0 ELSE ChunkStart(fd, i - 1) + own[fd][i - 1].n
\* the bytes call k of thread t has put into the stream of fd, in stream order
RECURSIVE RecBytesFrom(_, _, _, _)
RecBytesFrom(fd, t, k, i) ==
    IF i > Len(own[fd]) THEN <<>>
    ELSE (IF own[fd][i].t = t /\ own[fd][i].k = k
          THEN SubSeq(out[fd], ChunkStart(fd, i) + 1, ChunkStart(fd, i) + own[fd][i].n)
          ELSE <<>>) \o RecBytesFrom(fd, t, k, i + 1)
RecBytes(fd, t, k) == RecBytesFrom(fd, t, k, 1)
InWriteLoop(t) == pc[t] \in {"write", "unlock"}

\* C1: with locking, at most one thread is inside the write loop, and the
\* writes of one record are adjacent in the stream and in order: nothing of
\* another record lies between its first and last byte, also when a write
\* accepted fewer bytes than requested.
C1_Contiguous ==
    Locking =>
        /\ \A t, u \in Threads : (InWriteLoop(t) /\ InWriteLoop(u)) => t = u
        /\ \A fd \in FDs : \A i, j \in 1..Len(own[fd]) :
              (i < j /\ own[fd][i].t = own[fd][j].t /\ own[fd][i].k = own[fd][j].k) =>
                  /\ own[fd][i + 1].t = own[fd][i].t
                  /\ own[fd][i + 1].k = own[fd][i].k
                  /\ own[fd][i + 1].p = own[fd][i].p + own[fd][i].n

\* C1 witness: one stream holds records of both threads, one of them written
\* in two pieces by a short write while the other thread had composed its
\* record and waited.
C1_Witness ==
    \E fd \in FDs : \E i, j \in 1..Len(own[fd]) :
        /\ j = i + 1
        /\ own[fd][i].t = own[fd][j].t /\ own[fd][i].k = own[fd][j].k
        /\ \E m \in 1..Len(own[fd]) : own[fd][m].t # own[fd][i].t
        /\ \A t \in Threads : pc[t] = "idle" /\ h[t].passed /\ ~h[t].failed /\ h[t].acc = h[t].off

\* C2: a returned log call at severity s that read threshold t has written
\* its record to the descriptor iff s >= t; with s < t it has written nothing.
C2_ThresholdFilter ==
    \A t \in Threads :
        (h[t].api = "log" /\ h[t].done) =>
            /\ h[t].passed <=> h[t].lvl >= h[t].thr
            /\ h[t].lvl < h[t].thr =>
                  /\ ~h[t].wrote /\ h[t].acc = 0
                  /\ \A fd \in FDs : RecIdx(fd, t, h[t].k) = {}
            /\ h[t].lvl >= h[t].thr =>
                  /\ h[t].wrote
                  /\ \A fd \in FDs \ {h[t].fd} : RecIdx(fd, t, h[t].k) = {}
                  /\ ~h[t].failed =>
                        /\ h[t].acc = h[t].off
                        /\ RecBytes(h[t].fd, t, h[t].k) = Bytes(g_buf[t], h[t].off)

\* C2 witness: after set_level, a call at exactly the threshold has returned
\* with its whole record in the stream.
C2_Witness ==
    \E t \in Threads :
        /\ h[t].api = "log" /\ h[t].done
        /\ h[t].thr # CLOG_DEFAULT_LEVEL
        /\ h[t].lvl = h[t].thr
        /\ ~h[t].failed
        /\ RecBytes(h[t].fd, t, h[t].k) = Bytes(g_buf[t], h[t].off)
        /\ h[t].off > 0

\* a record is complete in thread t's buffer: off bytes that end in a
\* newline, followed by the terminator
Composed(t) ==
    /\ loc[t].off >= 1 /\ loc[t].off <= CLOG_LINE_MAX - 1
    /\ At(g_buf[t], loc[t].off - 1) = NL
    /\ At(g_buf[t], loc[t].off) = NUL

C6_State ==
    \A t \in Threads :
        /\ pc[t] \in {"fd", "compose"} =>
              (g_lock # t /\ h[t].locks = 0 /\ ~h[t].wrote /\ \A fd \in FDs : RecIdx(fd, t, h[t].k) = {})
        /\ pc[t] \in {"lock", "write", "unlock"} => Composed(t)
        /\ pc[t] = "lock" => (g_lock # t /\ ~h[t].wrote)
        /\ (Locking /\ g_lock = t) => InWriteLoop(t)
        /\ pc[t] \in {"write", "unlock"} =>
              RecBytes(loc[t].fd, t, h[t].k) = Bytes(g_buf[t], loc[t].p)

C6_Step ==
    \A t \in Threads :
        g_buf'[t] # g_buf[t] =>
            /\ pc[t] = "compose" /\ pc'[t] = "lock"
            /\ g_lock # t /\ g_lock' = g_lock
            /\ out' = out

\* C6: the record is complete in the calling thread's own buffer before the
\* lock is taken and before its first byte is written; while a thread holds
\* the lock it is in the write loop only; a thread's buffer changes only in
\* that thread's own composition step, so the bytes written are the bytes
\* composed.
C6_ComposeBeforeLock == [](C6_State) /\ [][C6_Step]_vars

\* C6 witness: a thread is in the middle of writing its record while the
\* other thread has composed a different record in its own buffer and waits
\* for the lock.
C6_Witness ==
    \E t, u \in Threads :
        /\ t # u
        /\ pc[t] = "write" /\ loc[t].p > 0 /\ loc[t].left > 0 /\ g_lock = t
        /\ pc[u] = "lock" /\ Composed(u)
        /\ g_buf[u] # g_buf[t]

\* C7: a log call below the current threshold returns at once and changes
\* nothing: not the caller's buffer, not the lock, no write, no flush, and
\* level, descriptor and timer table stay as they are.
C7_NoSideEffects ==
    [][\A t \in Threads :
          (h'[t].k = h[t].k + 1 /\ h'[t].api = "log" /\ h'[t].lvl < g_lvl) =>
              /\ UNCHANGED <<g_buf, g_lock, out, own, nsync, g_lvl, g_fd, g_timers>>
              /\ pc'[t] = "idle" /\ h'[t].done
              /\ h'[t].locks = 0 /\ ~h'[t].wrote /\ h'[t].syncs = 0]_vars

\* C7 witness: a suppressed call has returned in a thread whose buffer still
\* holds the record of an earlier call.
C7_Witness ==
    \E t \in Threads :
        /\ h[t].api = "log" /\ h[t].done /\ h[t].lvl < h[t].thr
        /\ h[t].k = 2
        /\ g_buf[t] # ZeroBuf
        /\ pc[t] = "idle"

\* C8: a Fatal call that passed the threshold issues one flush of the
\* descriptor it wrote to, after its write loop has finished and the lock is
\* released, in the step that returns; no other step and no call below
\* Fatal issues a flush.
C8_FatalFlush ==
    [][/\ \A t \in Threads :
             (pc[t] = "flush" /\ pc'[t] = "idle") =>
                 IF loc[t].lvl = CLOG_FATAL
                 THEN /\ nsync' = [nsync EXCEPT ![loc[t].fd] = @ + 1]
                      /\ h[t].wdone /\ h[t].fd = loc[t].fd
                      /\ h'[t].syncs = 1 /\ h'[t].sync_fd = h[t].fd
                 ELSE nsync' = nsync /\ h'[t].syncs = 0
       /\ nsync' # nsync =>
             \E t \in Threads : pc[t] = "flush" /\ pc'[t] = "idle" /\ loc[t].lvl = CLOG_FATAL
       /\ \A t \in Threads : (pc[t] # "idle" /\ pc'[t] = "idle") => pc[t] = "flush"]_vars

\* C8 witness: a Fatal call has returned, its record is in the stream of a
\* descriptor set by set_fd and that descriptor was flushed once.
C8_Witness ==
    \E t \in Threads :
        /\ h[t].api = "log" /\ h[t].done /\ h[t].lvl = CLOG_FATAL
        /\ h[t].fd # CLOG_FD_STDERR
        /\ h[t].acc = h[t].off
        /\ nsync[h[t].fd] = 1 /\ nsync[CLOG_FD_STDERR] = 0

C9_State ==
    /\ Locking => (g_lock = 0 <=> \A t \in Threads : ~InWriteLoop(t))
    /\ \A t \in Threads :
          h[t].failed =>
              /\ pc[t] \in {"unlock", "flush", "idle"}
              /\ pc[t] = "unlock" => ENABLED clog_unlock_(t)
              /\ pc[t] = "flush" => ENABLED Finish(t)
              /\ pc[t] = "idle" => h[t].done
              /\ pc[t] # "unlock" => g_lock # t

C9_Step ==
    \A t \in Threads :
        /\ (h'[t].failed /\ ~h[t].failed) =>
              /\ UNCHANGED <<g_lvl, g_fd, g_timers, g_lock, out>>
              /\ pc'[t] = "unlock"
        /\ (h[t].failed /\ pc[t] = "unlock" /\ pc'[t] # pc[t]) =>
              /\ pc'[t] = "flush"
              /\ Locking => g_lock' = 0
              /\ UNCHANGED <<g_lvl, g_fd, g_timers>>

\* C9: after a write failed with an error other than EINTR the call leaves
\* the write loop, releases the lock and returns; the failing step leaves
\* level, descriptor and timer table alone, and the lock word is free
\* whenever no thread is in the write loop, so later calls acquire it.
C9_WriteFailure == [](C9_State) /\ [][C9_Step]_vars

\* C9 witness: a call's write failed after part of the record was accepted,
\* the call returned, and then the other thread took the lock and wrote a
\* whole record to the same stream.
C9_Witness ==
    \E t, u \in Threads : \E fd \in FDs :
        /\ t # u
        /\ h[t].failed /\ h[t].done /\ h[t].acc > 0 /\ pc[t] = "idle"
        /\ h[u].done /\ h[u].passed /\ ~h[u].failed /\ h[u].acc = h[u].off
        /\ Len(own[fd]) >= 2
        /\ own[fd][1].t = t /\ own[fd][Len(own[fd])].t = u
        /\ g_lock = 0

\* the writes of one call are all in one stream, the stream of the descriptor
\* the call loaded
C26_State ==
    /\ \A fd1, fd2 \in FDs : \A i \in 1..Len(own[fd1]) : \A j \in 1..Len(own[fd2]) :
          (own[fd1][i].t = own[fd2][j].t /\ own[fd1][i].k = own[fd2][j].k) => fd1 = fd2
    /\ \A t \in Threads :
          /\ pc[t] \in {"compose", "lock", "write", "unlock"} =>
                (loc[t].fd = h[t].fd /\ h[t].fd \in FDs)
          /\ \A fd \in FDs : RecIdx(fd, t, h[t].k) # {} => fd = h[t].fd

C26_Step ==
    /\ \A t \in Threads :
          /\ (h'[t].k = h[t].k /\ h'[t].fd # h[t].fd) =>
                /\ pc[t] = "fd" /\ pc'[t] = "compose"
                /\ h'[t].fd = g_fd
                /\ h[t].off = 0 /\ h[t].locks = 0 /\ g_buf' = g_buf
          /\ (pc[t] \in {"compose", "lock", "write"}) => loc'[t].fd = loc[t].fd
          /\ (h'[t].k = h[t].k /\ h'[t].acc # h[t].acc) =>
                \A fd \in FDs \ {h[t].fd} : out'[fd] = out[fd] /\ own'[fd] = own[fd]
    /\ g_fd' # g_fd => (out' = out /\ own' = own /\ loc' = loc /\ pc' = pc)

\* C26: a log call loads the target descriptor once, before it composes,
\* and every byte of its record goes to that descriptor: a clog_set_fd by
\* another thread during the call redirects none of its writes.
C26_OneDescriptor == [](C26_State) /\ [][C26_Step]_vars

\* a call has written its whole record in two writes to the descriptor it
\* loaded and still holds the lock, while g_fd has been set to the other
\* descriptor, whose stream is empty
C26_Witness ==
    \E t \in Threads :
        /\ pc[t] = "unlock" /\ loc[t].rc = 0 /\ h[t].acc = h[t].off
        /\ Cardinality(RecIdx(loc[t].fd, t, h[t].k)) = 2
        /\ g_fd # loc[t].fd
        /\ out[g_fd] = <<>>
        /\ RecBytes(loc[t].fd, t, h[t].k) = SubSeq(g_buf[t], 1, loc[t].off)

\* C27: within one log call the descriptor whose colour capability decides
\* the escapes is the descriptor the record is written to: the composed
\* record holds colour escapes exactly when colour is enabled for the
\* descriptor the call loaded, also when another thread calls clog_set_fd
\* during the call.
C27_ColourOfTarget ==
    \A t \in Threads :
        pc[t] \in {"lock", "write", "unlock"} =>
            ((\E i \in 1..loc[t].off : g_buf[BufOf(t)][i] = ESC)
                <=> clog_color_enabled_(NoColorEnv, loc[t].fd))

\* C25: the stream is made of whole records, also when writes fail after a
\* partial write: a call whose write failed has put none of its bytes into
\* the stream, and where the bytes of one call are followed by the bytes of
\* another call, the first call's bytes end at a newline.
C25_WholeRecords ==
    /\ \A t \in Threads : h[t].failed => h[t].acc = 0
    /\ \A fd \in FDs : \A i \in 1..(Len(own[fd]) - 1) :
          (own[fd][i].t # own[fd][i + 1].t \/ own[fd][i].k # own[fd][i + 1].k) =>
              out[fd][ChunkStart(fd, i + 1)] = NL

----------------------------------------------------------------------------
(* Claims about the timers (SpecTimer) *)

\* the slots of thread t's table that are in use for label l
Occupied(t, l) ==
    {i \in 0..(CLOG_TIMERS_MAX - 1) : g_timers[t][i].used /\ g_timers[t][i].key = KeyOf[l]}

\* C10: end(label) with a slot in use for label frees that slot and no
\* other, and calls the logging pipeline exactly once: Debug, group "timer",
\* the caller's file and line, with the elapsed time now minus the time
\* stored by the most recent start(label).
C10_TimerEnd ==
    /\ [](\A t \in Threads :
            /\ pc[t] = "report" => (h[t].api = "end" /\ h[t].idx >= 0 /\ h[t].reports = 0)
            /\ (h[t].api = "end" /\ h[t].idx >= 0 /\ pc[t] # "report") => h[t].reports = 1)
    /\ [][\A t \in Threads :
          /\ (h'[t].k = h[t].k + 1 /\ h'[t].api = "end" /\ Occupied(t, h'[t].label) # {}) =>
                LET l == h'[t].label
                    elapsed == now' - h[t].st[l]
                IN /\ \E i \in Occupied(t, l) :
                          g_timers' = [g_timers EXCEPT ![t][i].used = FALSE]
                   /\ h[t].st[l] >= 0
                   /\ pc'[t] = "report"
                   /\ h'[t].line = Site.end
                   /\ h'[t].dt = elapsed
                   /\ loc'[t].dt = elapsed /\ loc'[t].label = l /\ loc'[t].line = Site.end
          /\ (pc[t] = "report" /\ pc'[t] # "report") =>
                /\ h'[t].k = h[t].k /\ h'[t].label = h[t].label
                /\ g_timers' = g_timers /\ now' = now
                /\ h'[t].lvl = CLOG_DEBUG
                /\ h'[t].group = TimerGroup
                /\ h'[t].file = SrcFile
                /\ h'[t].eline = h'[t].line /\ h'[t].line = Site.end
                /\ h'[t].dt = h[t].dt
                /\ h'[t].text = TimerText(h[t].dt, h[t].label)
                /\ h'[t].passed =>
                      /\ loc'[t].lvl = CLOG_DEBUG /\ loc'[t].group = TimerGroup
                      /\ loc'[t].file = SrcFile /\ loc'[t].line = Site.end
                      /\ loc'[t].fmt = Text(TimerText(h[t].dt, h[t].label))]_vars

\* C10 witness: with the threshold at Debug, end(label) has returned after a
\* start(label); its record, with an elapsed time in the microsecond range,
\* is in the stream and the slot is free again.
C10_Witness ==
    \E t \in Threads :
        /\ h[t].api = "end" /\ h[t].done /\ h[t].passed
        /\ h[t].idx >= 0 /\ ~g_timers[t][h[t].idx].used
        /\ h[t].dt >= CLOG_TIMER_NS_MAX
        /\ h[t].dt = now - h[t].st[h[t].label]
        /\ h[t].reports = 1
        /\ h[t].off > 0 /\ h[t].acc = h[t].off
        /\ RecBytes(h[t].fd, t, h[t].k) = Bytes(g_buf[t], h[t].off)

\* the slots of thread t's table that are in use
UsedSlots(t) == {i \in 0..(CLOG_TIMERS_MAX - 1) : g_timers[t][i].used}
UsedSlotsAfter(t) == {i \in 0..(CLOG_TIMERS_MAX - 1) : g_timers'[t][i].used}
\* the step is the call of api by thread t
Calls(t, api) == h'[t].k = h[t].k + 1 /\ h'[t].api = api

\* C11: start(label) for an active label stores the new start time in the
\* label's slot, takes no other slot and reports nothing, also with a full
\* table; the next end(label) reports the time since that restart.
C11_Restart ==
    [][\A t \in Threads :
          /\ (Calls(t, "start") /\ Occupied(t, h'[t].label) # {}) =>
                /\ \E i \in Occupied(t, h'[t].label) :
                      g_timers' = [g_timers EXCEPT ![t][i].t0 = now']
                /\ UsedSlotsAfter(t) = UsedSlots(t)
                /\ now' > now
                /\ h'[t].reports = 0 /\ h'[t].done
                /\ h'[t].st[h'[t].label] = now'
                /\ UNCHANGED <<pc, loc, out, own, g_buf, g_lock>>
          /\ (Calls(t, "end") /\ Occupied(t, h'[t].label) # {}) =>
                /\ h'[t].dt = now' - h[t].st[h'[t].label]
                /\ \A i \in Occupied(t, h'[t].label) :
                      g_timers[t][i].t0 = h[t].st[h'[t].label]
                /\ loc'[t].dt = now' - h[t].st[h'[t].label]
          /\ (pc[t] = "report" /\ pc'[t] # "report") =>
                /\ h[t].dt = loc[t].dt
                /\ h'[t].text = TimerText(loc[t].dt, h[t].label)]_vars

\* C11 witness: one thread started a label at 5, restarted it at 1505 and
\* ended it at 1510: the report says 5 ns, and the table is empty again.
C11_Witness ==
    \E t \in Threads :
        /\ h[t].api = "end" /\ h[t].k = 3 /\ h[t].done
        /\ h[t].idx >= 0 /\ h[t].reports = 1
        /\ now = 1510 /\ h[t].dt = 5
        /\ h[t].st[h[t].label] = 1505
        /\ UsedSlots(t) = {}

\* C12: end(label) with no slot in use for label calls the pipeline once,
\* at Warn, group "timer", with the unknown-label text; there is no Debug
\* timer report, and the table is left as it is.
C12_UnknownLabel ==
    [][\A t \in Threads :
          (Calls(t, "end") /\ Occupied(t, h'[t].label) = {}) =>
              /\ g_timers' = g_timers
              /\ h'[t].reports = 1
              /\ h'[t].lvl = CLOG_WARN
              /\ h'[t].group = TimerGroup
              /\ h'[t].text = UnknownText(h'[t].label)
              /\ h'[t].file = SrcFile /\ h'[t].eline = Site.end
              /\ h'[t].dt = -1 /\ h'[t].idx = -1
              /\ h'[t].passed =>
                    /\ loc'[t].lvl = CLOG_WARN /\ loc'[t].group = TimerGroup
                    /\ loc'[t].fmt = Text(UnknownText(h'[t].label))]_vars

\* C12 witness: a label was started and ended, and a second end of it has
\* written the Warn record; the table is empty.
C12_Witness ==
    \E t \in Threads :
        /\ h[t].api = "end" /\ h[t].k = 3 /\ h[t].done
        /\ h[t].idx = -1 /\ h[t].st[h[t].label] >= 0
        /\ h[t].lvl = CLOG_WARN /\ h[t].passed
        /\ h[t].off > 0 /\ h[t].acc = h[t].off
        /\ RecBytes(h[t].fd, t, h[t].k) = Bytes(g_buf[t], h[t].off)
        /\ UsedSlots(t) = {}

AllSlots == 0..(CLOG_TIMERS_MAX - 1)

\* C13: start(label) for a label that is not active, with every slot of the
\* caller's table in use, calls the pipeline once at Warn, group "timer",
\* with the no-free-slot text, and records nothing: every slot keeps its
\* key, start time and flag.
C13_SlotExhaustion ==
    [][\A t \in Threads :
          (Calls(t, "start") /\ Occupied(t, h'[t].label) = {} /\ UsedSlots(t) = AllSlots) =>
              /\ g_timers' = g_timers
              /\ h'[t].reports = 1
              /\ h'[t].lvl = CLOG_WARN
              /\ h'[t].group = TimerGroup
              /\ h'[t].text = NoSlotText
              /\ h'[t].file = SrcFile /\ h'[t].eline = Site.start
              /\ h'[t].idx = -1
              /\ h'[t].st = h[t].st
              /\ h'[t].passed =>
                    /\ loc'[t].lvl = CLOG_WARN /\ loc'[t].group = TimerGroup
                    /\ loc'[t].fmt = Text(NoSlotText)]_vars

\* C13 witness: with CLOG_TIMERS_MAX labels active, the start of one more
\* label has written the Warn record and every slot is still in use.
C13_Witness ==
    \E t \in Threads :
        /\ h[t].api = "start" /\ h[t].done /\ h[t].idx = -1
        /\ h[t].lvl = CLOG_WARN /\ h[t].passed
        /\ h[t].st[h[t].label] = -1
        /\ h[t].off > 0 /\ h[t].acc = h[t].off
        /\ RecBytes(h[t].fd, t, h[t].k) = Bytes(g_buf[t], h[t].off)
        /\ UsedSlots(t) = AllSlots

C14_State ==
    \A t \in Threads :
        /\ DOMAIN g_timers[t] = AllSlots
        /\ Cardinality(UsedSlots(t)) <= CLOG_TIMERS_MAX
        /\ h[t].idx >= -1 /\ h[t].idx < CLOG_TIMERS_MAX

C14_Step ==
    \A t \in Threads :
        /\ g_timers'[t] # g_timers[t] => (Calls(t, "start") \/ Calls(t, "end"))
        /\ \A i \in AllSlots :
              /\ (~g_timers[t][i].used /\ g_timers'[t][i].used) =>
                    /\ Calls(t, "start")
                    /\ g_timers'[t][i].key = clog_hash64_(h'[t].label)
                    /\ Occupied(t, h'[t].label) = {}
                    /\ UsedSlotsAfter(t) = UsedSlots(t) \cup {i}
              /\ (g_timers[t][i].used /\ ~g_timers'[t][i].used) =>
                    /\ Calls(t, "end")
                    /\ g_timers[t][i].key = clog_hash64_(h'[t].label)
                    /\ UsedSlotsAfter(t) = UsedSlots(t) \ {i}
              /\ Calls(t, "end") =>
                    /\ g_timers'[t][i].key = g_timers[t][i].key
                    /\ g_timers'[t][i].t0 = g_timers[t][i].t0
                    /\ g_timers'[t][i].used => g_timers[t][i].used

\* C14: a thread's table never has more than CLOG_TIMERS_MAX slots in use
\* and no call reaches a slot outside it; a slot comes into use only in a
\* start, keyed by the started label; an end frees only a slot whose key is
\* its label's and never takes or re-keys a slot.
C14_TableBound == [](C14_State) /\ [][C14_Step]_vars

\* C14 witness: a label was started and ended, and the start of another
\* label has taken the freed slot 0 under its own key.
C14_Witness ==
    \E t \in Threads : \E a, b \in Labels :
        /\ a # b
        /\ h[t].api = "start" /\ h[t].k = 3 /\ h[t].label = b /\ h[t].idx = 0
        /\ h[t].st[a] >= 0
        /\ UsedSlots(t) = {0}
        /\ g_timers[t][0].key = clog_hash64_(b)

\* in and right after the write loop: the bytes that were accepted are the
\* first p bytes of the buffer, in order, and p + left = n; the loop runs while
\* bytes are left, and it has returned 0 exactly when none is left
C21_State ==
    \A t \in Threads :
        /\ InWriteLoop(t) =>
              /\ loc[t].p + loc[t].left = loc[t].off
              /\ h[t].acc = loc[t].p
              /\ RecBytes(loc[t].fd, t, h[t].k) = SubSeq(g_buf[t], 1, loc[t].p)
              /\ \A fd \in FDs \ {loc[t].fd} : RecIdx(fd, t, h[t].k) = {}
        /\ pc[t] = "write" => loc[t].left > 0
        /\ pc[t] = "unlock" =>
              /\ loc[t].rc \in {0, -1}
              /\ loc[t].rc = 0 <=> loc[t].left = 0
              /\ loc[t].rc = 0 <=> h[t].acc = h[t].off
              /\ loc[t].rc = -1 <=> h[t].failed

\* a write that accepts r bytes puts the next r unwritten bytes at the end of
\* the stream; the loop comes round without advancing only after EINTR; the
\* first write that accepts nothing or fails otherwise ends the loop with -1
C21_Step ==
    \A t \in Threads :
        /\ (h'[t].k = h[t].k /\ h'[t].acc # h[t].acc) =>
              /\ pc[t] = "write"
              /\ h'[t].acc > h[t].acc
              /\ out'[loc[t].fd] = out[loc[t].fd] \o SubSeq(g_buf[t], h[t].acc + 1, h'[t].acc)
              /\ \A fd \in FDs \ {loc[t].fd} : out'[fd] = out[fd]
              /\ loc'[t].p = h'[t].acc
              /\ g_buf' = g_buf
        /\ (pc[t] = "write" /\ pc'[t] = "write" /\ loc'[t] # loc[t] /\ loc'[t].p = loc[t].p) =>
              /\ loc'[t].eintr = loc[t].eintr + 1
              /\ loc'[t].left = loc[t].left
              /\ out' = out
        /\ (pc[t] = "write" /\ loc'[t].eintr # loc[t].eintr) =>
              /\ pc'[t] = "write" /\ loc'[t].p = loc[t].p /\ out' = out
        /\ (h'[t].failed /\ ~h[t].failed) =>
              /\ pc[t] = "write" /\ pc'[t] = "unlock"
              /\ loc'[t].rc = -1
              /\ out' = out
        /\ (pc[t] = "unlock" /\ h'[t].k = h[t].k) => (h'[t].acc = h[t].acc /\ out' = out)

\* C21: clog_write_all_ hands the n bytes of the buffer to the descriptor in
\* order, each once and without gap, going on after a short write at the first
\* unwritten byte; it repeats a write without advancing only after EINTR; it
\* returns 0 exactly when all n bytes were accepted and -1 at the first write
\* that accepts nothing or fails with another error.
C21_WriteAll == [](C21_State) /\ [][C21_Step]_vars

\* the loop has returned 0 after a short write, an interrupted write and a
\* write of the rest: the record is in the stream in two pieces
C21_Witness ==
    \E t \in Threads :
        /\ pc[t] = "unlock" /\ loc[t].rc = 0 /\ loc[t].eintr = 1
        /\ loc[t].p = loc[t].off /\ loc[t].p > PipeRoom
        /\ Cardinality(RecIdx(loc[t].fd, t, h[t].k)) = 2
        /\ RecBytes(loc[t].fd, t, h[t].k) = SubSeq(g_buf[t], 1, loc[t].off)

----------------------------------------------------------------------------
(* Claims about termination (SpecLive) *)

\* a thread holds the lock only from its lock to its unlock: when it asks
\* for the lock, and when it is outside a call, it does not hold it
C22_NoRelock == \A t \in Threads : pc[t] \notin {"write", "unlock"} => g_lock # t

\* C22: every log, start and end call returns, with the write lock released,
\* when the lock is granted to every waiter in the end and writes are not
\* interrupted for ever, whatever the writes return otherwise; and no call
\* asks for the lock while it holds it.
C22_Completion ==
    /\ [](C22_NoRelock)
    /\ \A t \in Threads : (pc[t] # "idle") ~> (pc[t] = "idle" /\ h[t].done /\ g_lock # t)

\* a start that found its table full has reported through the pipeline and
\* its write has failed; an end of the other thread has
\* made its Debug report, which passed the threshold and was written; both
\* took the lock once and have returned, and the lock is free
C22_Witness ==
    \E t \in Threads : \E u \in Threads \ {t} :
        /\ h[t].api = "start" /\ h[t].idx < 0 /\ h[t].done /\ h[t].lvl = CLOG_WARN
        /\ h[t].passed /\ h[t].locks = 1 /\ h[t].failed
        /\ h[u].api = "end" /\ h[u].idx >= 0 /\ h[u].done /\ h[u].reports = 1
        /\ h[u].lvl = CLOG_DEBUG /\ h[u].passed /\ h[u].locks = 1 /\ ~h[u].failed
        /\ pc[t] = "idle" /\ pc[u] = "idle"
        /\ g_lock = 0

----------------------------------------------------------------------------
(* Claims about the prefix (SpecCompose) *)

\* the prefix clog_write_prefix_ has left in the buffer
PrefixBytes == SubSeq(cs.e.buf, 1, cs.poff)
\* the part of path p after its last '/' or '\'
ShortName(p) ==
    LET S == {i \in 1..Len(p) : p[i] \in {"/", "\\"}}
    IN IF S = {} THEN p ELSE SubSeq(p, (CHOOSE i \in S : \A j \in S : j <= i) + 1, Len(p))
\* byte sequence w stands in s from place i on
StandsAt(s, w, i) == i >= 1 /\ i + Len(w) - 1 <= Len(s) /\ SubSeq(s, i, i + Len(w) - 1) = w
\* the call has a group that is present and not empty
HasGroup == cs.in.group # NULLP /\ cs.in.group # <<>>
\* "[group] " of the call's group
GroupBlock == <<"[">> \o cs.in.group \o <<"]", " ">>
\* the place after the level tag: the first tab of the prefix
AfterTag == CHOOSE i \in 1..(Len(PrefixBytes) + 1) :
                /\ i = Len(PrefixBytes) + 1 \/ PrefixBytes[i] = "\t"
                /\ \A j \in 1..(i - 1) : PrefixBytes[j] # "\t"
\* the places where the call-site block "<name:" of the short file name stands
SitePlaces ==
    {i \in 1..Len(PrefixBytes) : StandsAt(PrefixBytes, <<"<">> \o ShortName(cs.in.file) \o <<":">>, i)}
\* the place where the prefix's last block would be the group block
GroupPlace == Len(PrefixBytes) - Len(GroupBlock) + 1
\* all blocks of the prefix, for this call, are no longer than the buffer holds
PrefixFits ==
    Len(TimestampText(cs.in.env.wc))
    + Len(LevelText(cs.in.lvl, clog_color_enabled_(cs.in.env.no_color, cs.in.env.curfd)))
    + Len(TidText(cs.in.env.tid))
    + Len(SiteText(ShortName(cs.in.file), cs.in.line))
    + (IF HasGroup THEN Len(GroupBlock) ELSE 0) <= CLOG_LINE_MAX - 1

\* the prefix ends in the group block exactly when the call has a group, and
\* a call-site block stands after the level tag, before the group block if
\* there is one and at the end of the prefix if there is none
C20_Prefix ==
    /\ HasGroup <=> StandsAt(PrefixBytes, GroupBlock, GroupPlace)
    /\ \E i \in SitePlaces :
          /\ i > AfterTag
          /\ HasGroup => i < GroupPlace
          /\ ~HasGroup => /\ StandsAt(PrefixBytes, SiteText(ShortName(cs.in.file), cs.in.line), i)
                          /\ i + Len(SiteText(ShortName(cs.in.file), cs.in.line)) - 1 = Len(PrefixBytes)

\* C20 as stated: once the prefix is composed, it ends in "[group] " exactly
\* when the call has a non-empty group, and the call-site block with the short
\* name of the file stands after the level tag and before group and message.
C20_GroupAndSite == cs.pc = "message" => C20_Prefix

\* C20, for a prefix that fits in the line buffer: the same.
C20_GroupAndSiteWhenFits == (cs.pc = "message" /\ PrefixFits) => C20_Prefix

\* the prefix of a call from s/d\b.c with group "g" is composed: it ends in
\* "<b.c:7> [g] "
C20_Witness ==
    /\ cs.pc = "message"
    /\ cs.in.file = WinFile /\ cs.in.group = <<"g">>
    /\ PrefixFits
    /\ StandsAt(PrefixBytes, <<"<", "b", ".", "c", ":", "7", ">", " ", "[", "g", "]", " ">>,
                Len(PrefixBytes) - 11)

----------------------------------------------------------------------------
(* Claims about sequences of log calls (Spec) *)

\* the number of bytes c in the byte sequence s
CountChar(s, c) == Cardinality({i \in 1..Len(s) : s[i] = c})
\* the level tags as clog_write_prefix_ renders them, plain and coloured
LevelTags ==
    {SubSeq(LevelText(l, c), 1, Len(LevelText(l, c)) - 1) : l \in Levels, c \in BOOLEAN}
\* the number of places of s where a level tag stands
CountTags(s) ==
    Cardinality({i \in 1..Len(s) :
                    \E w \in LevelTags : i + Len(w) - 1 <= Len(s) /\ SubSeq(s, i, i + Len(w) - 1) = w})
RECURSIVE SumOver(_, _)
SumOver(f, S) == IF S = {} THEN 0 ELSE LET x == CHOOSE x \in S : TRUE IN f[x] + SumOver(f, S \ {x})

\* C17: when every call has returned and no write has failed, the streams hold
\* as many newline bytes and as many level tags as there were log calls that
\* passed the threshold (their messages hold no newline), every stream that
\* was written to ends in a newline, and a thread that alone made N such calls
\* to one descriptor left exactly N newlines and N level tags there.
C17_NewlineIntegrity ==
    ((\A t \in Threads : pc[t] = "idle" /\ h[t].lost = 0)
     /\ (\A f \in LogFmts : ~f.err /\ CountChar(f.text, NL) = 0)) =>
        /\ SumOver([fd \in FDs |-> CountChar(out[fd], NL)], FDs)
             = SumOver([t \in Threads |-> h[t].recs], Threads)
        /\ SumOver([fd \in FDs |-> CountTags(out[fd])], FDs)
             = SumOver([t \in Threads |-> h[t].recs], Threads)
        /\ \A fd \in FDs : out[fd] # <<>> => out[fd][Len(out[fd])] = NL
        /\ \A t \in Threads : \A fd \in FDs :
              ((\A u \in Threads \ {t} : h[u].recs = 0) /\ (\A g \in FDs \ {fd} : out[g] = <<>>)) =>
                  /\ CountChar(out[fd], NL) = h[t].recs
                  /\ CountTags(out[fd]) = h[t].recs

\* one thread has made MaxApiOps calls that all passed, the last of them
\* clog_banner, and all the records are in the stream of standard error
C17_Witness ==
    \E t \in Threads :
        /\ \A u \in Threads : pc[u] = "idle" /\ h[u].lost = 0
        /\ h[t].recs = MaxApiOps /\ h[t].k = MaxApiOps /\ h[t].done
        /\ h[t].api = "banner"
        /\ \A u \in Threads \ {t} : h[u].k = 0
        /\ CountChar(out[CLOG_FD_STDERR], NL) = MaxApiOps
        /\ Len(out[CLOG_FD_STDERR]) > MaxApiOps

\* C23: no two slots in use of a thread's table hold the same key, so a
\* label that is active has exactly one slot: start looks for a slot in use
\* with the key before it takes a free one.
C23_UniqueKeys ==
    \A t \in Threads :
        /\ \A i, j \in AllSlots :
              (i # j /\ g_timers[t][i].used /\ g_timers[t][j].used) =>
                  g_timers[t][i].key # g_timers[t][j].key
        /\ \A l \in Labels : Cardinality(Occupied(t, l)) <= 1
        /\ (h[t].api = "start" /\ h[t].idx >= 0) => Occupied(t, h[t].label) = {h[t].idx}

\* after three starts on one thread, one of a label that was active, the
\* table is full with two different keys
C23_Witness ==
    \E t \in Threads :
        /\ h[t].api = "start" /\ h[t].k = 3 /\ nops = 3 /\ h[t].idx >= 0
        /\ UsedSlots(t) = AllSlots
        /\ Cardinality({l \in Labels : h[t].st[l] >= 0}) = CLOG_TIMERS_MAX
        /\ g_timers[t][0].key # g_timers[t][1].key

\* the table a start or an end leaves, from the table before, the label and
\* the clock alone
C24_After(tm, api, label, tnow) ==
    LET key == clog_hash64_(label)
        hit == {i \in AllSlots : tm[i].used /\ tm[i].key = key}
        free == {i \in AllSlots : ~tm[i].used}
        first(S) == CHOOSE i \in S : \A j \in S : i <= j
    IN IF api = "end"
       THEN IF hit = {} THEN tm ELSE [tm EXCEPT ![first(hit)].used = FALSE]
       ELSE IF hit # {} THEN [tm EXCEPT ![first(hit)] = [key |-> key, t0 |-> tnow, used |-> TRUE]]
            ELSE IF free # {} THEN [tm EXCEPT ![first(free)] = [key |-> key, t0 |-> tnow, used |-> TRUE]]
            ELSE tm

C24_Step ==
    \A t \in Threads :
        /\ g_timers'[t] = IF Calls(t, "start") \/ Calls(t, "end")
                          THEN C24_After(g_timers[t], h'[t].api, h'[t].label, now')
                          ELSE g_timers[t]
        /\ (Calls(t, "end") /\ h'[t].idx >= 0) =>
              /\ h'[t].reports = 0 /\ pc'[t] = "report"
              /\ g_timers[t][h'[t].idx].used /\ ~g_timers'[t][h'[t].idx].used
        /\ (pc[t] = "report" /\ pc'[t] # "report") =>
              /\ h'[t].reports = 1 /\ h'[t].lvl = CLOG_DEBUG
              /\ h'[t].passed = (g_lvl <= CLOG_DEBUG)
        /\ (Calls(t, "start") /\ h'[t].idx < 0) =>
              /\ h'[t].reports = 1 /\ h'[t].lvl = CLOG_WARN
              /\ h'[t].passed = (g_lvl <= CLOG_WARN)

\* C24: the timer table does not depend on the level threshold: a start
\* or an end leaves the table that the table before, the label and the clock
\* determine, whether or not its report is suppressed, and no other step
\* (a set_level among them) changes a table.
C24_ThresholdFree == [][C24_Step]_vars

\* an end found its label's slot and freed it while its Debug report was
\* suppressed, under a threshold set by clog_set_level
C24_Witness ==
    \E t \in Threads :
        /\ h[t].api = "end" /\ h[t].idx >= 0 /\ h[t].done
        /\ h[t].reports = 1 /\ ~h[t].passed /\ h[t].thr = CLOG_ERROR
        /\ ~g_timers[t][h[t].idx].used
        /\ g_timers[t][h[t].idx].key = clog_hash64_(h[t].label)
        /\ UsedSlots(t) = {}

\* C16: the timer tables are per thread.  A start on thread t changes no slot
\* of another thread's table; an end(label) on thread u, which has no occupied
\* slot for label, takes the unknown-label path even when another thread has
\* label active; and a table changes only in a start or end call of its own
\* thread, so an occupied slot keeps its start time until its thread ends it.
C16_PerThread ==
    [][\A t \in Threads : \A u \in Threads \ {t} :
          /\ Calls(t, "start") => g_timers'[u] = g_timers[u]
          /\ (Calls(u, "end") /\ Occupied(u, h'[u].label) = {}) =>
                 /\ h'[u].idx = -1
                 /\ h'[u].reports = 1
                 /\ h'[u].lvl = CLOG_WARN
                 /\ h'[u].text = UnknownText(h'[u].label)
                 /\ g_timers'[t] = g_timers[t]
          /\ h'[t].k = h[t].k => g_timers'[t] = g_timers[t]
      ]_vars

\* thread 2 has ended a label it never started while thread 1 has that label
\* active: the call found nothing, and thread 1's slot still holds its start
C16_Witness ==
    \E l \in Labels :
        /\ h[2].api = "end" /\ h[2].label = l /\ h[2].idx = -1
        /\ h[2].st[l] = -1
        /\ h[1].api = "start" /\ h[1].label = l /\ h[1].idx >= 0
        /\ Occupied(1, l) # {}
        /\ \A i \in Occupied(1, l) : g_timers[1][i].t0 = h[1].st[l]
        /\ UsedSlots(2) = {}

----------------------------------------------------------------------------
(* Claims about the unit of a timer report (SpecUnit) *)

\* the units a report can name
UnitNs == <<"n", "s">>
UnitMs == <<"m", "s">>
UnitS == <<"s">>
Units == {UnitNs, CLOG_TIMER_UNIT_US, UnitMs, UnitS}
\* the report text names unit u: " u]" stands right after the number that
\* follows the opening bracket
NamesUnit(text, u) ==
    \E i \in 2..Len(text) :
        /\ i + Len(u) + 1 <= Len(text)
        /\ SubSeq(text, i, i + Len(u) + 1) = <<" ">> \o u \o <<"]">>
        /\ \A j \in 2..(i - 1) : text[j] \in {Digits[k] : k \in 1..Len(Digits)} \cup {"."}
        /\ text[1] = "["

\* C19: the report for elapsed time dt names ns when dt < 1000, microseconds
\* when 1000 <= dt < 10^6, ms when 10^6 <= dt < 10^9 and s when dt >= 10^9;
\* it names exactly one unit, and a dt equal to a boundary gets the larger one.
C19_UnitChoice ==
    cs.pc = "report" =>
        /\ NamesUnit(cs.text, UnitNs) <=> cs.dt < 1000
        /\ NamesUnit(cs.text, CLOG_TIMER_UNIT_US) <=> (1000 <= cs.dt /\ cs.dt < 1000000)
        /\ NamesUnit(cs.text, UnitMs) <=> (1000000 <= cs.dt /\ cs.dt < 1000000000)
        /\ NamesUnit(cs.text, UnitS) <=> cs.dt >= 1000000000
        /\ Cardinality({u \in Units : NamesUnit(cs.text, u)}) = 1
        /\ cs.dt = CLOG_TIMER_NS_MAX => NamesUnit(cs.text, CLOG_TIMER_UNIT_US)
        /\ cs.dt = CLOG_TIMER_US_MAX => NamesUnit(cs.text, UnitMs)
        /\ cs.dt = CLOG_TIMER_MS_MAX => NamesUnit(cs.text, UnitS)

\* the report for an elapsed time of exactly 10^6 ns has been formatted: in ms
C19_Witness ==
    /\ cs.pc = "report"
    /\ cs.dt = CLOG_TIMER_US_MAX
    /\ NamesUnit(cs.text, UnitMs)
    /\ SubSeq(cs.text, 1, 10) = <<"[", "1", ".", "0", "0", "0", " ", "m", "s", "]">>

----------------------------------------------------------------------------
(* Claims about the threshold and descriptor cells (SpecCells) *)

\* the value of the latest set call recorded in field f ("setl" or "setf") of
\* any thread, or dflt when no thread has made one
MostRecent(f, dflt) ==
    LET S == {t \in Threads : h[t][f].at > 0}
    IN IF S = {} THEN dflt
       ELSE h[CHOOSE t \in S : \A u \in S : h[u][f].at <= h[t][f].at][f].v

\* at all times the cells hold what the latest set call stored
C18_State ==
    /\ clog_lvl_load_ = MostRecent("setl", CLOG_DEFAULT_LEVEL)
    /\ clog_fd_load_ = MostRecent("setf", CLOG_FD_STDERR)

C18_Step ==
    \A t \in Threads :
        /\ Calls(t, "get_level") =>
              /\ h'[t].ret = MostRecent("setl", CLOG_DEFAULT_LEVEL)
              /\ UNCHANGED <<g_lvl, g_fd, g_timers, out, pc, loc>>
        /\ Calls(t, "get_fd") =>
              /\ h'[t].ret = MostRecent("setf", CLOG_FD_STDERR)
              /\ UNCHANGED <<g_lvl, g_fd, g_timers, out, pc, loc>>
        /\ Calls(t, "set_level") =>
              /\ clog_lvl_load_' = h'[t].arg
              /\ clog_fd_load_' = clog_fd_load_
              /\ UNCHANGED <<g_timers, out, pc, loc, g_buf>>
        /\ Calls(t, "set_fd") =>
              /\ clog_fd_load_' = h'[t].arg
              /\ clog_lvl_load_' = clog_lvl_load_
              /\ UNCHANGED <<g_timers, out, pc, loc, g_buf>>

\* C18: get_level returns the value of the latest set_level (the build default
\* if there was none) and get_fd that of the latest set_fd (standard error if
\* none); set_level leaves what get_fd returns, set_fd what get_level returns,
\* and none of the four calls changes a timer table or writes output.
C18_IndependentCells == [](C18_State) /\ [][C18_Step]_vars

\* thread 2 has set the threshold and thread 1 then read it: the value that
\* thread 2 stored, and the descriptor is still standard error
C18_Witness ==
    /\ h[2].api = "set_level" /\ h[2].setl.at = 1 /\ h[2].arg # CLOG_DEFAULT_LEVEL
    /\ h[1].api = "get_level" /\ h[1].k = 1 /\ nops = 2
    /\ h[1].ret = h[2].arg
    /\ clog_fd_load_ = CLOG_FD_STDERR

----------------------------------------------------------------------------
(* Claims about CLOG_SCOPE_TIME (SpecScope) *)

\* C15 as stated: when the block of a CLOG_SCOPE_TIME(label) has been left,
\* in whichever way, start(label) was called once, the block ran once and
\* end(label) was called once.
C15_ScopeEndsOnce ==
    \A t \in Threads :
        sc[t].pc = "left" =>
            /\ sc[t].starts = 1
            /\ sc[t].runs = 1
            /\ sc[t].ends = 1

====
